---- MODULE Spec2Model ----
(***************************************************************************)
(* goletan/services-library: the service registry (Registry over a        *)
(* ServiceCache), the composite discovery aggregator (Discover, its       *)
(* fan-in Watch, AddStrategy and RemoveStrategy over the slice of         *)
(* strategies) and the filter match functions, modelled as state machines.*)
(***************************************************************************)
EXTENDS Naturals, Integers, Sequences, FiniteSets, TLC

VARIABLES
    \* ---- registry (internal/registry) ----
    cache,          \* ServiceCache.cache (sync.Map): name -> service or None
    initialized,    \* per stored service object: its Initialize() has succeeded
    started,        \* per stored service object: it is running
    regResult,      \* what the last Register call returned
    firstStored,    \* history: the service stored by the first successful Register of a name
    bulkPc,         \* "idle" | "running" | "done": position of processAllServices
    bulkAction,     \* "initialize" | "start" | "stop"
    pending,        \* keys rangeAll has still to visit
    atStart,        \* history: keys present when the bulk operation began
    invoked,        \* history: per name, lifecycle invocations in this bulk operation
    failedNow,      \* history: names whose lifecycle method failed in this bulk operation
    operationErrors,\* processAllServices' operationErrors (each error named by its service)
    bulkResult,     \* what the bulk operation returned
    inMethod,       \* the service whose lifecycle method the bulk operation is inside
    spanOpen,       \* history: the services whose trace span is started and not ended
    observed,       \* history: per (name, operation), the duration observations made in it
    insideCalls,    \* history: the calls completed while a lifecycle method was running
    unregResult,    \* what the last unregister returned
    tPc,            \* per task: "idle" | "store" | "done" (position in Register)
    tArg,           \* per task: the endpoint of its Register call
    tRes,           \* per task: what its Register call returned
    willFail,       \* the services whose lifecycle method fails in this bulk operation
    disturbed,      \* history: the keys stored or deleted while rangeAll was iterating
    \* ---- composite discovery: Discover (internal/discovery) ----
    arrays,         \* the backing arrays of slices of strategies: id -> cells (names or None)
    hdr,            \* CompositeDiscovery.strategies, a slice: [arr, len] (arr 0: nil)
    dPc,            \* "idle" | "running" | "done": position of Discover
    dIdx,           \* index of the strategy the loop of Discover is at
    dRange,         \* the slice the range loop of Discover iterates, read when it began
    dNames,         \* history: the strategies this Discover invoked, in order
    dAtCall,        \* history: the list of strategies when this Discover began
    dLists,         \* history: the lists at the call and after each mutation during it
    dNew,           \* history: the strategies AddStrategy was called with during it
    discovered,     \* Discover's discovered
    responses,      \* history: what each strategy's Discover returned in this call
    dResult,        \* what Discover returned
    dCtxDone,       \* the context passed to Discover was expired or cancelled at the call
    \* ---- composite discovery: Watch (internal/discovery) ----
    wPc,            \* "none" | "active": Watch has been called and has returned its stream
    wResult,        \* what Watch returned
    ctxCancelled,   \* the context passed to Watch is cancelled
    cancelCalled,   \* cancel() of the derived watchCtx has been called
    fwdPc,          \* per strategy: "none" | "init" | "recv" | "send" | "done" (forwarding task)
    bkPc,           \* per strategy: "none" | "select" | "sending" | "closed" (backend producer)
    emitted,        \* per strategy: number of events its backend has put on its stream
    held,           \* per strategy: the event the forwarding task holds (0: none)
    got,            \* per strategy: its events received on the merged stream, in order
    wg,             \* the WaitGroup's counter
    closerPc,       \* "none" | "wait" | "cancel" | "close" | "done" (coordinating task)
    aggClosed,      \* aggregatedEvents is closed
    closeCount,     \* history: number of close(aggregatedEvents) executed
    \* ---- composite discovery: AddStrategy, RemoveStrategy ----
    mPc,            \* per caller: "idle" | "append" | "shift"
    mOp,            \* per caller: its last call, "none" | "add" | "remove"
    mArg,           \* per caller: the strategy (name) of its last call
    mHdr,           \* per caller: the slice its AddStrategy read
    mIdx,           \* per caller: the index its RemoveStrategy found
    mResult,        \* per caller: "none" | "nil" | "NotFound" | "panic"
    mBefore,        \* history, per caller: the list when its last call began
    mCalls,         \* history, per caller: number of calls made
    list0,          \* history: the list after construction
    \* ---- filters (internal/discovery/strategies) ----
    endpointTags,   \* the tags of an endpoint
    filter,         \* a filter: [Tags, Labels]
    matched,        \* what the match functions returned for them
    filterNil,      \* the filter handed to a strategy is nil
    applied,        \* what a strategy did with the endpoint: [op, result]
    \* ---- cluster strategy: Watch (internal/discovery/strategies) ----
    kPc,            \* "none" | "running" | "returned" | "closed": the task running the informer
    kCtxDone,       \* the context passed to the cluster strategy's Watch is done
    kHandler,       \* the event a handler of the informer is sending on the stream
    kClosed,        \* the stream of the cluster strategy's Watch is closed
    kLast,          \* history: the last event received from that stream
    \* ---- DNS strategy: Watch (internal/discovery/strategies) ----
    pollPc,         \* "none" | "select" | "adding" | "deleting" | "closed": the polling task
    dnsCtxDone,     \* the context passed to the DNS strategy's Watch is done
    reading,        \* the consumer of the DNS strategy's stream is still receiving
    prevRecords,    \* prevRecords: the keys of the previous snapshot
    currentRecords, \* currentRecords: the keys of the snapshot being built
    records,        \* what the lookup of this poll returned
    rIdx,           \* index in records the first loop is at
    toDelete,       \* the keys of prevRecords the second loop has still to visit
    sending,        \* the event the polling task is sending on the stream
    pollEvents,     \* history: the events received from the stream in this poll
    prevAtPoll,     \* history: prevRecords when this poll began
    lastPoll        \* history: "none" | "failed" | "ok", how the last poll's lookup went

lifeVars == <<inMethod, spanOpen, observed, insideCalls>>

unregVars == <<unregResult>>

taskVars == <<tPc, tArg, tRes>>

orderVars == <<willFail, disturbed>>

regVars == <<cache, initialized, started, regResult, firstStored, bulkPc, bulkAction,
             pending, atStart, invoked, failedNow, operationErrors, bulkResult,
             lifeVars, unregVars, taskVars, orderVars>>

listVars == <<arrays, hdr>>

callVars == <<dPc, dIdx, dRange, dNames, dAtCall, dLists, dNew, discovered, responses, dResult,
              dCtxDone>>

discVars == <<listVars, callVars>>

mutVars == <<mPc, mOp, mArg, mHdr, mIdx, mResult, mBefore, mCalls, list0>>

kubeVars == <<kPc, kCtxDone, kHandler, kClosed, kLast>>

dnsVars == <<pollPc, dnsCtxDone, reading, prevRecords, currentRecords, records, rIdx, toDelete,
             sending, pollEvents, prevAtPoll, lastPoll>>

filterVars == <<endpointTags, filter, matched, filterNil, applied>>

matchVars == <<filterVars, kubeVars, dnsVars>>

watchVars == <<wPc, wResult, ctxCancelled, cancelCalled, fwdPc, bkPc, emitted, held, got, wg,
               closerPc, aggClosed, closeCount>>

vars == <<regVars, discVars, mutVars, matchVars, watchVars>>

None == "none"

\* The nil service, the result of no call yet.
NoService == [name |-> None, address |-> None]
NoRegResult == [endpoint |-> NoService, service |-> NoService, err |-> None, wasPresent |-> FALSE]
NoBulkResult == [err |-> FALSE, action |-> None, failures |-> <<>>]
NoUnregResult == [name |-> None, err |-> None, stopInvoked |-> FALSE]

\* ------------------------------------------------------------------------
\* Registry
\* ------------------------------------------------------------------------
Names == {"auth", "db", "mq"}
Addresses == {"10.0.0.1", "10.0.0.2"}
Actions == {"initialize", "start", "stop"}

\* types.ServiceEndpoint, reduced to the fields that identify it here.
Endpoints == [name : Names, address : Addresses]

\* NewService(endpoint): the service object built from an endpoint.
NewService(endpoint) == [name |-> endpoint.name, address |-> endpoint.address]

\* The tasks that call Register at the same time.
Tasks == {1, 2}

\* exists, with the lookup never finding the key.
exists_NeverFound(name) == FALSE

\* ServiceCache.exists
exists(name) == cache[name] # NoService

\* get, finding no key.
get_Missing(name) == <<NoService, FALSE>>

\* ServiceCache.get: (service, found)
get(name) == IF cache[name] = NoService THEN <<NoService, FALSE>> ELSE <<cache[name], TRUE>>

\* Registry.GetService
GetService(name) == get(name)

RegInit ==
    /\ cache = [n \in Names |-> NoService]
    /\ initialized = [n \in Names |-> FALSE]
    /\ started = [n \in Names |-> FALSE]
    /\ regResult = NoRegResult
    /\ firstStored = [n \in Names |-> NoService]
    /\ bulkPc = "idle"
    /\ bulkAction = None
    /\ pending = {}
    /\ atStart = {}
    /\ invoked = [n \in Names |-> 0]
    /\ failedNow = {}
    /\ operationErrors = <<>>
    /\ bulkResult = NoBulkResult
    /\ inMethod = None
    /\ spanOpen = {}
    /\ observed = [p \in Names \X Actions |-> 0]
    /\ insideCalls = {}
    /\ unregResult = NoUnregResult
    /\ tPc = [t \in Tasks |-> "idle"]
    /\ tArg = [t \in Tasks |-> NoService]
    /\ tRes = [t \in Tasks |-> NoRegResult]
    /\ willFail = {}
    /\ disturbed = {}


\* ServiceCache.store
store(name, service) == [cache EXCEPT ![name] = service]

\* ServiceCache.delete
delete(name) == [cache EXCEPT ![name] = NoService]

\* What Registry.Register(endpoint) returns: (nil, already-registered error) for a
\* name that exists, otherwise (service, nil).
RegisterReturn(endpoint) ==
    IF exists(endpoint.name)
    THEN [endpoint |-> endpoint, service |-> NoService, err |-> "AlreadyRegistered",
          wasPresent |-> cache[endpoint.name] # NoService]
    ELSE [endpoint |-> endpoint, service |-> NewService(endpoint), err |-> "nil",
          wasPresent |-> cache[endpoint.name] # NoService]

\* A Range that visits a stored key whether or not it has visited the key before.
RangeAfterStore_Revisit(name) ==
    IF bulkPc = "running" THEN {pending \cup {name}} ELSE {pending}

\* What is left for rangeAll to visit after a key has been stored while it is
\* iterating: sync.Map.Range may or may not visit the key, and visits no key
\* more than once.
RangeAfterStore(name) ==
    IF bulkPc = "running" /\ invoked[name] = 0
    THEN {pending, pending \cup {name}}
    ELSE {pending}

\* Registry.Register(endpoint): refuse a name that exists, otherwise build the
\* service and store it.  A key stored while rangeAll is iterating may or may
\* not be visited by that iteration (sync.Map.Range gives no snapshot).
Register(endpoint) ==
    LET name == endpoint.name
    IN  IF exists(name)
        THEN UNCHANGED <<cache, initialized, started, firstStored, pending>>
        ELSE LET service == NewService(endpoint) IN
             /\ cache' = store(name, service)
             /\ initialized' = [initialized EXCEPT ![name] = FALSE]
             /\ started' = [started EXCEPT ![name] = FALSE]
             /\ firstStored' = IF firstStored[name] = NoService
                               THEN [firstStored EXCEPT ![name] = service]
                               ELSE firstStored
             /\ pending' \in RangeAfterStore(name)

\* A Register call whose caller looks at the returned values.
RegisterCall ==
    /\ \E endpoint \in Endpoints :
          /\ Register(endpoint)
          /\ regResult' = RegisterReturn(endpoint)
    /\ UNCHANGED <<bulkPc, bulkAction, atStart, invoked, failedNow, operationErrors, bulkResult>>

\* A Register call made by another task while the lifecycle of the registry is
\* driven; its returned values are dropped.
RegisterDuringLifecycle ==
    /\ \E endpoint \in Endpoints : Register(endpoint)
    /\ UNCHANGED <<regResult, bulkPc, bulkAction, atStart, invoked, failedNow,
                   operationErrors, bulkResult>>

\* A registry that hands startAll the initialized services only, and stopAll the
\* started ones.
Visits_Sequenced(action) ==
    {n \in Names : /\ exists(n)
                   /\ action = "start" => initialized[n]
                   /\ action = "stop" => started[n]}

\* The services processAllServices(action) hands to its operation: every key
\* rangeAll finds, whatever the action and whatever was done to the service before.
Visits(action) == {n \in Names : exists(n)}

\* InitializeAll / StartAll / StopAll enter processAllServices with their action;
\* rangeAll starts over the keys that are present.
BeginBulk(action) ==
    /\ bulkPc \in {"idle", "done"}
    /\ bulkPc' = "running"
    /\ bulkAction' = action
    /\ pending' = Visits(action)
    /\ atStart' = {n \in Names : cache[n] # NoService}
    /\ invoked' = [n \in Names |-> 0]
    /\ failedNow' = {}
    /\ operationErrors' = <<>>
    /\ bulkResult' = NoBulkResult
    /\ UNCHANGED <<cache, initialized, started, regResult, firstStored>>

InitializeAll == BeginBulk("initialize")
StartAll == BeginBulk("start")
StopAll == BeginBulk("stop")

\* The lifecycle methods of a service (the Service interface; state as kept by
\* MockService): a call either fails and changes nothing, or succeeds.
ServiceInitialized(action, name, ok) ==
    IF ok /\ action = "initialize" THEN TRUE ELSE initialized[name]

\* Stop() leaving the service started.
ServiceStarted_NoStop(action, name, ok) ==
    IF ok /\ action = "start" THEN TRUE ELSE started[name]

ServiceStarted(action, name, ok) ==
    IF ok /\ action = "start" THEN TRUE
    ELSE IF ok /\ action = "stop" THEN FALSE
    ELSE started[name]

\* rangeAll's callback, returning false (stop the iteration) after a failure.
RangeContinue_StopOnError(name, ok) == IF ok THEN pending \ {name} ELSE {}

\* rangeAll's callback returns true: the iteration goes on to the other keys
\* whatever the handler did.
RangeContinue(name, ok) == pending \ {name}

\* The handler of processAllServices for one service: span, operation, span end,
\* and the error, if any, appended to operationErrors.
ProcessService(name, ok) ==
    /\ bulkPc = "running"
    /\ name \in pending
    /\ invoked' = [invoked EXCEPT ![name] = @ + 1]
    /\ initialized' = [initialized EXCEPT ![name] = ServiceInitialized(bulkAction, name, ok)]
    /\ started' = [started EXCEPT ![name] = ServiceStarted(bulkAction, name, ok)]
    /\ failedNow' = IF ok THEN failedNow ELSE failedNow \cup {name}
    /\ operationErrors' = IF ok THEN operationErrors ELSE Append(operationErrors, name)
    /\ pending' = RangeContinue(name, ok)
    /\ UNCHANGED <<cache, regResult, firstStored, bulkPc, bulkAction, atStart, bulkResult>>

\* processAllServices returning only the first collected error.
BulkReturn_FirstError(action, errors) ==
    IF Len(errors) > 0
    THEN [err |-> TRUE, action |-> action, failures |-> <<errors[1]>>]
    ELSE [err |-> FALSE, action |-> action, failures |-> <<>>]

\* The value processAllServices returns: nil, or an error whose text holds every
\* collected error (%v of operationErrors).
BulkReturn(action, errors) ==
    IF Len(errors) > 0
    THEN [err |-> TRUE, action |-> action, failures |-> errors]
    ELSE [err |-> FALSE, action |-> action, failures |-> <<>>]

\* rangeAll returning while the handler of a service is still running.
RangeReturned_Async == pending \ {inMethod} = {}

\* rangeAll returns when its handler has returned for the last key.
RangeReturned == pending = {}

FinishBulk ==
    /\ bulkPc = "running"
    /\ RangeReturned
    /\ bulkResult' = BulkReturn(bulkAction, operationErrors)
    /\ bulkPc' = "done"
    /\ UNCHANGED <<cache, initialized, started, regResult, firstStored, bulkAction,
                   pending, atStart, invoked, failedNow, operationErrors>>

regOther == <<lifeVars, unregVars, taskVars, orderVars, discVars, mutVars, matchVars, watchVars>>

RegisterNext == RegisterCall /\ UNCHANGED regOther

RegNext ==
    \/ RegisterDuringLifecycle /\ UNCHANGED regOther
    \/ InitializeAll /\ UNCHANGED regOther
    \/ StartAll /\ UNCHANGED regOther
    \/ StopAll /\ UNCHANGED regOther
    \/ (\E name \in Names, ok \in BOOLEAN : ProcessService(name, ok)) /\ UNCHANGED regOther
    \/ FinishBulk /\ UNCHANGED regOther

\* ------------------------------------------------------------------------
\* Registry: the handler of processAllServices, its lifecycle method a state
\* ------------------------------------------------------------------------
lifeOther == <<unregVars, taskVars, orderVars, discVars, mutVars, matchVars, watchVars>>

\* A bulk operation is entered.
BeginLifecycle(action) ==
    /\ BeginBulk(action)
    /\ insideCalls' = {}
    /\ observed' = [p \in Names \X Actions |-> 0]
    /\ UNCHANGED <<inMethod, spanOpen>>

\* The handler starts the span of the service and calls its lifecycle method.
EnterService(name) ==
    /\ bulkPc = "running"
    /\ inMethod = None
    /\ name \in pending
    /\ spanOpen' = spanOpen \cup {name}
    /\ invoked' = [invoked EXCEPT ![name] = @ + 1]
    /\ inMethod' = name
    /\ UNCHANGED <<cache, initialized, started, regResult, firstStored, bulkPc, bulkAction,
                   pending, atStart, failedNow, operationErrors, bulkResult, observed,
                   insideCalls>>

\* The lifecycle method returns; the handler ends the span, appends the error, if
\* any, to operationErrors and returns true to rangeAll.  It hands nothing to
\* r.metrics.
ExitService(name, ok) ==
    /\ bulkPc = "running"
    /\ inMethod = name
    /\ initialized' = [initialized EXCEPT ![name] = ServiceInitialized(bulkAction, name, ok)]
    /\ started' = [started EXCEPT ![name] = ServiceStarted(bulkAction, name, ok)]
    /\ spanOpen' = spanOpen \ {name}
    /\ failedNow' = IF ok THEN failedNow ELSE failedNow \cup {name}
    /\ operationErrors' = IF ok THEN operationErrors ELSE Append(operationErrors, name)
    /\ pending' = RangeContinue(name, ok)
    /\ inMethod' = None
    /\ UNCHANGED <<cache, regResult, firstStored, bulkPc, bulkAction, atStart, invoked,
                   bulkResult, observed, insideCalls>>

\* rangeAll taking a lock that it holds while its handler runs.
rangeAllBlocks_WhileIterating == bulkPc = "running"

\* Whether a call on the cache has to wait for rangeAll: the cache is a sync.Map
\* with no mutex around it, and Range holds no lock while the handler runs.
rangeAllBlocks == FALSE

\* Register called before the lifecycle of the registry is driven.
RegisterOutside ==
    /\ bulkPc = "idle"
    /\ ~rangeAllBlocks
    /\ RegisterDuringLifecycle
    /\ UNCHANGED lifeVars

\* Register called, by another task or by the lifecycle method itself, while a
\* lifecycle method is running.
RegisterInside ==
    /\ inMethod # None
    /\ ~rangeAllBlocks
    /\ RegisterDuringLifecycle
    /\ insideCalls' = insideCalls \cup {"register"}
    /\ UNCHANGED <<inMethod, spanOpen, observed>>

\* GetService called the same way; it changes nothing.
GetServiceInside ==
    /\ inMethod # None
    /\ ~rangeAllBlocks
    /\ \E name \in Names : GetService(name) \in {<<cache[name], TRUE>>, <<NoService, FALSE>>}
    /\ insideCalls' = insideCalls \cup {"getService"}
    /\ UNCHANGED <<cache, initialized, started, regResult, firstStored, bulkPc, bulkAction,
                   pending, atStart, invoked, failedNow, operationErrors, bulkResult,
                   inMethod, spanOpen, observed>>

\* The lifecycle methods of services that do not fail.
MethodsSucceed == {TRUE}

LifeNext ==
    \/ RegisterOutside /\ UNCHANGED lifeOther
    \/ RegisterInside /\ UNCHANGED lifeOther
    \/ GetServiceInside /\ UNCHANGED lifeOther
    \/ BeginLifecycle("initialize") /\ UNCHANGED lifeOther
    \/ BeginLifecycle("start") /\ UNCHANGED lifeOther
    \/ BeginLifecycle("stop") /\ UNCHANGED lifeOther
    \/ (\E name \in Names : EnterService(name)) /\ UNCHANGED lifeOther
    \/ (\E name \in Names, ok \in MethodsSucceed : ExitService(name, ok)) /\ UNCHANGED lifeOther
    \/ (FinishBulk /\ UNCHANGED lifeVars) /\ UNCHANGED lifeOther

\* ------------------------------------------------------------------------
\* Registry: the sequence of TestServiceRegistry
\* ------------------------------------------------------------------------
\* Services are registered, then InitializeAll, StartAll and StopAll are called
\* in that order, each after the one before it has returned.
TestRegister == bulkPc = "idle" /\ RegisterDuringLifecycle

TestInitializeAll == bulkPc = "idle" /\ InitializeAll

TestStartAll == bulkPc = "done" /\ bulkAction = "initialize" /\ StartAll

TestStopAll == bulkPc = "done" /\ bulkAction = "start" /\ StopAll

TestNext ==
    \/ TestRegister /\ UNCHANGED regOther
    \/ TestInitializeAll /\ UNCHANGED regOther
    \/ TestStartAll /\ UNCHANGED regOther
    \/ TestStopAll /\ UNCHANGED regOther
    \/ (\E name \in Names, ok \in MethodsSucceed : ProcessService(name, ok))
          /\ UNCHANGED regOther
    \/ FinishBulk /\ UNCHANGED regOther

\* ------------------------------------------------------------------------
\* Registry: the cache stored to and deleted from while rangeAll iterates
\* ------------------------------------------------------------------------
\* Services are registered before the lifecycle of the registry is driven.
RegisterBefore == bulkPc = "idle" /\ RegisterDuringLifecycle

\* The number of keys that are stored or deleted during one iteration.
MaxDisturbed == 1

\* A store or a delete of name keeps within that number.
MayDisturb(name) == name \in disturbed \/ Cardinality(disturbed) < MaxDisturbed

\* The keys a store or a delete of name has disturbed in this iteration.
Disturbed(name) == IF bulkPc = "running" THEN disturbed \cup {name} ELSE disturbed

\* What is left for rangeAll to visit after a key has been deleted while it is
\* iterating: sync.Map.Range may or may not still visit the key.
RangeAfterDelete(name) ==
    IF bulkPc = "running" THEN {pending, pending \ {name}} ELSE {pending}

\* rangeAll is entered by the first bulk operation on the registry.
BeginRange(action) ==
    /\ bulkPc = "idle"
    /\ BeginBulk(action)
    /\ disturbed' = {}
    /\ UNCHANGED willFail

\* Another task registers a service while rangeAll iterates, storing it in the
\* cache.
StoreDuring ==
    /\ bulkPc = "running"
    /\ \E endpoint \in Endpoints :
          /\ MayDisturb(endpoint.name)
          /\ Register(endpoint)
          /\ disturbed' = IF exists(endpoint.name) THEN disturbed ELSE Disturbed(endpoint.name)
    /\ UNCHANGED <<regResult, bulkPc, bulkAction, atStart, invoked, failedNow,
                   operationErrors, bulkResult, willFail>>

\* Another task deletes a key from the cache while rangeAll iterates.
DeleteDuring ==
    /\ bulkPc = "running"
    /\ \E name \in Names :
          /\ exists(name)
          /\ MayDisturb(name)
          /\ cache' = delete(name)
          /\ pending' \in RangeAfterDelete(name)
          /\ disturbed' = Disturbed(name)
    /\ UNCHANGED <<initialized, started, regResult, firstStored, bulkPc, bulkAction, atStart,
                   invoked, failedNow, operationErrors, bulkResult, willFail>>

rangeOther == <<lifeVars, unregVars, taskVars, discVars, mutVars, matchVars, watchVars>>

RangeNext ==
    \/ RegisterBefore /\ UNCHANGED regOther
    \/ StoreDuring /\ UNCHANGED rangeOther
    \/ DeleteDuring /\ UNCHANGED rangeOther
    \/ (\E action \in Actions : BeginRange(action)) /\ UNCHANGED rangeOther
    \/ (\E name \in Names, ok \in MethodsSucceed : ProcessService(name, ok))
          /\ UNCHANGED <<orderVars, rangeOther>>
    \/ FinishBulk /\ UNCHANGED <<orderVars, rangeOther>>

\* ------------------------------------------------------------------------
\* Registry: a bulk operation over services of which some fail, in any order
\* ------------------------------------------------------------------------
\* A bulk operation is entered; the lifecycle method of the services in fails
\* will fail, that of the others will succeed.
BeginOrdered(action, fails) ==
    /\ BeginBulk(action)
    /\ willFail' = fails
    /\ UNCHANGED disturbed

\* The handler, for the service rangeAll hands it next, whichever that is.
ProcessOrdered(name) ==
    /\ ProcessService(name, name \notin willFail)
    /\ UNCHANGED orderVars

OrderNext ==
    \/ RegisterBefore /\ UNCHANGED regOther
    \/ (\E action \in Actions, fails \in SUBSET Names : BeginOrdered(action, fails))
          /\ UNCHANGED rangeOther
    \/ (\E name \in Names : ProcessOrdered(name)) /\ UNCHANGED rangeOther
    \/ FinishBulk /\ UNCHANGED regOther

\* ------------------------------------------------------------------------
\* Registry: Register called by two tasks at once
\* ------------------------------------------------------------------------
\* The first statement of Register: the name is looked up with exists, and the
\* call returns the already-registered error if it is there.
RegisterCheck(t, endpoint) ==
    /\ tPc[t] = "idle"
    /\ tArg' = [tArg EXCEPT ![t] = endpoint]
    /\ IF exists(endpoint.name)
       THEN /\ tRes' = [tRes EXCEPT ![t] = RegisterReturn(endpoint)]
            /\ tPc' = [tPc EXCEPT ![t] = "done"]
       ELSE /\ tPc' = [tPc EXCEPT ![t] = "store"]
            /\ UNCHANGED tRes
    /\ UNCHANGED <<cache, initialized, started, regResult, firstStored, bulkPc, bulkAction,
                   pending, atStart, invoked, failedNow, operationErrors, bulkResult>>

\* The rest of Register: the service is built and stored, whatever the cache
\* holds by now, and returned with a nil error.
RegisterStore(t) ==
    /\ tPc[t] = "store"
    /\ LET name == tArg[t].name
           service == NewService(tArg[t])
       IN  /\ cache' = store(name, service)
           /\ initialized' = [initialized EXCEPT ![name] = FALSE]
           /\ started' = [started EXCEPT ![name] = FALSE]
           /\ firstStored' = IF firstStored[name] = NoService
                             THEN [firstStored EXCEPT ![name] = service]
                             ELSE firstStored
           /\ tRes' = [tRes EXCEPT ![t] = [endpoint |-> tArg[t], service |-> service,
                                           err |-> "nil", wasPresent |-> exists(name)]]
    /\ tPc' = [tPc EXCEPT ![t] = "done"]
    /\ UNCHANGED <<tArg, regResult, bulkPc, bulkAction, pending, atStart, invoked, failedNow,
                   operationErrors, bulkResult>>

\* ------------------------------------------------------------------------
\* Registry: unregister
\* ------------------------------------------------------------------------
\* An unregister that removes the service whatever stop() returned.
Removes_Always(ok) == TRUE

\* Whether unregister removes the service, given that its stop() succeeded (ok):
\* a service whose stop() fails is kept.
Removes(ok) == ok

\* What unregister(name) returns: not-found for an absent name, otherwise the
\* error of stop(), if any.
UnregisterReturn(name, ok) ==
    IF ~exists(name) THEN [name |-> name, err |-> "NotFound", stopInvoked |-> FALSE]
    ELSE [name |-> name, err |-> IF ok THEN "nil" ELSE "StopFailed", stopInvoked |-> TRUE]

\* unregister(name): an absent name is refused and nothing changes; a service
\* that is there is stopped first and, if that succeeded, deleted from the cache.
Unregister(name, ok) ==
    IF ~exists(name)
    THEN UNCHANGED <<cache, initialized, started>>
    ELSE /\ started' = [started EXCEPT ![name] = ServiceStarted("stop", name, ok)]
         /\ cache' = IF Removes(ok) THEN delete(name) ELSE cache
         /\ UNCHANGED initialized

UnregisterCall ==
    /\ \E name \in Names, ok \in BOOLEAN :
          /\ Unregister(name, ok)
          /\ unregResult' = UnregisterReturn(name, ok)
    /\ UNCHANGED <<regResult, firstStored, bulkPc, bulkAction, pending, atStart, invoked,
                   failedNow, operationErrors, bulkResult>>

UnregNext ==
    \/ RegisterCall /\ UNCHANGED regOther
    \/ UnregisterCall
          /\ UNCHANGED <<lifeVars, taskVars, orderVars, discVars, mutVars, matchVars, watchVars>>

taskOther == <<lifeVars, unregVars, orderVars, discVars, mutVars, matchVars, watchVars>>

TaskNext ==
    \/ (\E t \in Tasks, endpoint \in Endpoints : RegisterCheck(t, endpoint))
          /\ UNCHANGED taskOther
    \/ (\E t \in Tasks : RegisterStore(t)) /\ UNCHANGED taskOther


\* ------------------------------------------------------------------------
\* Composite discovery: Discover
\* ------------------------------------------------------------------------
MaxStrategies == 3
MaxResponse == 1

\* The strategies initStrategies can build.
StrategyNames == {"kubernetes", "docker_swarm", "dns"}
\* The endpoints the backends may report.
DiscEndpoints == {"e1", "e2"}

SeqsUpTo(S, n) == UNION {[1..k -> S] : k \in 0..n}

\* What one strategy's Discover may return: an error, or a list of endpoints.
Outcomes ==
    {[err |-> TRUE, endpoints |-> <<>>]} \cup
    {[err |-> FALSE, endpoints |-> e] : e \in SeqsUpTo(DiscEndpoints, MaxResponse)}

NoDiscResult == [endpoints |-> <<>>, err |-> FALSE, failures |-> <<>>, returned |-> FALSE]

\* The callers of AddStrategy and RemoveStrategy.
Mutators == {1, 2}

\* The backing arrays there can be: each caller, a Discover and the composite hold
\* at most one each, and one more can be allocated.
ArrayIds == 1..(Cardinality(Mutators) + 3)

\* The nil slice.
NilSlice == [arr |-> 0, len |-> 0]

\* The cells of the backing array of a slice, its capacity, and its elements.
Cells(h) == IF h.arr = 0 THEN <<>> ELSE arrays[h.arr]
Cap(h) == Len(Cells(h))
View(h) == SubSeq(Cells(h), 1, h.len)

\* cd.strategies as a list: the elements of the slice.
strategies == View(hdr)

\* The capacity append gives the array it allocates when the slice is full.
NewCap(c) == IF c = 0 THEN 1 ELSE 2 * c

\* The capacity of a slice built by n appends to a nil slice, as initStrategies does.
RECURSIVE CapAfterAppends(_)
CapAfterAppends(n) ==
    IF n = 0 THEN 0
    ELSE LET c == CapAfterAppends(n - 1) IN IF n - 1 < c THEN c ELSE NewCap(c)

Nils(n) == [k \in 1..n |-> None]

\* The composite built with a list of strategies.
ListInit(list) ==
    /\ arrays = [a \in ArrayIds |->
                   IF a = 1 THEN list \o Nils(CapAfterAppends(Len(list)) - Len(list))
                   ELSE <<>>]
    /\ hdr = IF list = <<>> THEN NilSlice ELSE [arr |-> 1, len |-> Len(list)]

\* No Discover has been called.
CallIdle ==
    /\ dPc = "idle"
    /\ dIdx = 0
    /\ dRange = NilSlice
    /\ dNames = <<>>
    /\ dAtCall = <<>>
    /\ dLists = {}
    /\ dNew = {}
    /\ discovered = <<>>
    /\ responses = <<>>
    /\ dResult = NoDiscResult
    /\ dCtxDone = FALSE

\* The discovery side when it is not exercised.
DiscIdle ==
    /\ ListInit(<<>>)
    /\ CallIdle

\* NewCompositeDiscovery: the strategies built from the configuration, in order.
DiscInit ==
    /\ \E list \in SeqsUpTo(StrategyNames, MaxStrategies) : ListInit(list)
    /\ CallIdle

\* Discover is entered with a context that is expired or cancelled, or not, as
\* ctxStates allows: discovered is nil and the loop starts at the first strategy.
\* The context is handed to the strategies and looked at nowhere in Discover.
DiscoverCallWith(ctxStates) ==
    /\ dPc \in {"idle", "done"}
    /\ dCtxDone' \in ctxStates
    /\ dPc' = "running"
    /\ dIdx' = 1
    /\ discovered' = <<>>
    /\ responses' = <<>>
    /\ dResult' = NoDiscResult
    /\ dRange' = hdr
    /\ dNames' = <<>>
    /\ dAtCall' = strategies
    /\ dLists' = {strategies}
    /\ dNew' = {}
    /\ UNCHANGED listVars

DiscoverCall == DiscoverCallWith(BOOLEAN)

\* Merge putting what a strategy found before what the earlier ones found.
Merge_Prepend(acc, outcome) ==
    IF outcome.err THEN acc ELSE outcome.endpoints \o acc

\* Merge with a failing strategy wiping what the others found.
Merge_ResetOnError(acc, outcome) ==
    IF outcome.err THEN <<>> ELSE acc \o outcome.endpoints

\* Merge assigning instead of appending.
Merge_Overwrite(acc, outcome) ==
    IF outcome.err THEN acc ELSE outcome.endpoints

\* The body of Discover's loop: a failure is logged as a warning and skipped, a
\* success is appended to discovered.
Merge(acc, outcome) ==
    IF outcome.err THEN acc ELSE acc \o outcome.endpoints

\* One iteration of Discover's loop, over the strategy at dIdx of the slice the
\* loop ranges over, as its array holds it now; the strategy's Discover returns
\* one of outs.
DiscoverStepWith(outs) ==
    /\ dPc = "running"
    /\ dIdx <= dRange.len
    /\ dNames' = Append(dNames, Cells(dRange)[dIdx])
    /\ \E outcome \in outs :
          /\ responses' = Append(responses, outcome)
          /\ discovered' = Merge(discovered, outcome)
    /\ dIdx' = dIdx + 1
    /\ UNCHANGED <<listVars, dPc, dRange, dAtCall, dLists, dNew, dResult, dCtxDone>>

DiscoverStep == DiscoverStepWith(Outcomes)

\* A Discover that fails when it has found nothing.
DiscoverReturnValue_ErrorWhenEmpty(found) ==
    [endpoints |-> found, err |-> (found = <<>>), failures |-> <<>>, returned |-> TRUE]

\* What Discover returns: discovered and a nil error, whatever the strategies did.
DiscoverReturnValue(found) ==
    [endpoints |-> found, err |-> FALSE, failures |-> <<>>, returned |-> TRUE]

DiscoverReturn ==
    /\ dPc = "running"
    /\ dIdx > dRange.len
    /\ dResult' = DiscoverReturnValue(discovered)
    /\ dPc' = "done"
    /\ UNCHANGED <<listVars, dIdx, dRange, dNames, dAtCall, dLists, dNew, discovered, responses,
                   dCtxDone>>

DiscNext ==
    \/ DiscoverCall /\ UNCHANGED <<regVars, mutVars, matchVars, watchVars>>
    \/ DiscoverStep /\ UNCHANGED <<regVars, mutVars, matchVars, watchVars>>
    \/ DiscoverReturn /\ UNCHANGED <<regVars, mutVars, matchVars, watchVars>>

\* ------------------------------------------------------------------------
\* Composite discovery: Watch
\* ------------------------------------------------------------------------
MaxEvents == 2

\* The strategies NewServices builds, in its order.
DefaultStrategies == <<"kubernetes", "docker_swarm", "dns">>
Slots == 1..Len(DefaultStrategies)

\* The configurations watched: the default list and the lists a configuration
\* selects from it.
SubSeqs(seq) ==
    {[i \in 1..Cardinality(I) |->
         seq[CHOOSE j \in I : Cardinality({k \in I : k < j}) = i - 1]] :
       I \in SUBSET (1..Len(seq))}
WatchConfigs == SubSeqs(DefaultStrategies)

\* Whether a strategy's Watch can return an error, and whether it can return a
\* stream: the swarm strategy's Watch is not implemented, the DNS strategy's
\* never fails, the cluster strategy's fails when its client cannot be built.
WatchMayFail(name) == name \in {"docker_swarm", "kubernetes"}
WatchMayOpen(name) == name \in {"dns", "kubernetes"}

NoWatchResult == [returned |-> FALSE, stream |-> FALSE, err |-> FALSE]

WatchIdle ==
    /\ wPc = "none"
    /\ wResult = NoWatchResult
    /\ ctxCancelled = FALSE
    /\ cancelCalled = FALSE
    /\ fwdPc = [i \in Slots |-> "none"]
    /\ bkPc = [i \in Slots |-> "none"]
    /\ emitted = [i \in Slots |-> 0]
    /\ held = [i \in Slots |-> 0]
    /\ got = [i \in Slots |-> <<>>]
    /\ wg = 0
    /\ closerPc = "none"
    /\ aggClosed = FALSE
    /\ closeCount = 0

WatchInit ==
    /\ \E list \in WatchConfigs : ListInit(list)
    /\ CallIdle
    /\ WatchIdle

\* watchCtx.Done() is readable: the parent is cancelled or cancel() was called.
WatchCtxDone == ctxCancelled \/ cancelCalled

\* What Watch returns: the merged stream and a nil error.
WatchReturnValue == [returned |-> TRUE, stream |-> TRUE, err |-> FALSE]

\* Watch: make the merged stream and the derived context, wg.Add(1) and start a
\* forwarding task per strategy, start the coordinating task, return the stream.
WatchCall ==
    /\ wPc = "none"
    /\ wPc' = "active"
    /\ wResult' = WatchReturnValue
    /\ fwdPc' = [i \in Slots |-> IF i <= Len(strategies) THEN "init" ELSE "none"]
    /\ wg' = Len(strategies)
    /\ closerPc' = "wait"
    /\ UNCHANGED <<ctxCancelled, cancelCalled, bkPc, emitted, held, got, aggClosed,
                   closeCount, listVars>>

\* The caller cancels the context it passed to Watch.
Cancel ==
    /\ wPc = "active"
    /\ ~ctxCancelled
    /\ ctxCancelled' = TRUE
    /\ UNCHANGED <<wPc, wResult, cancelCalled, fwdPc, bkPc, emitted, held, got, wg, closerPc,
                   aggClosed, closeCount, listVars>>

\* A forwarding task that returns without wg.Done().
WgDone_Skipped == wg

\* defer wg.Done()
WgDone == wg - 1

\* A forwarding task returns: its deferred wg.Done() runs.
FwdReturn(i) ==
    /\ fwdPc' = [fwdPc EXCEPT ![i] = "done"]
    /\ wg' = WgDone

\* A failed open releasing the derived context, which stops the other strategies.
AfterOpenFail_Cancel == TRUE

\* The error path of the open: a warning is logged, the derived context is left as
\* it is.
AfterOpenFail == cancelCalled

\* strategy.Watch(watchCtx, filter) returns an error: warn and return.
FwdOpenFail(i) ==
    /\ fwdPc[i] = "init"
    /\ WatchMayFail(strategies[i])
    /\ FwdReturn(i)
    /\ cancelCalled' = AfterOpenFail
    /\ UNCHANGED <<wPc, wResult, ctxCancelled, bkPc, emitted, held, got, closerPc,
                   aggClosed, closeCount, listVars>>

\* strategy.Watch(watchCtx, filter) returns a stream, its producer running.
FwdOpen(i) ==
    /\ fwdPc[i] = "init"
    /\ WatchMayOpen(strategies[i])
    /\ fwdPc' = [fwdPc EXCEPT ![i] = "recv"]
    /\ bkPc' = [bkPc EXCEPT ![i] = "select"]
    /\ UNCHANGED <<wPc, wResult, ctxCancelled, cancelCalled, emitted, held, got, wg, closerPc,
                   aggClosed, closeCount, listVars>>

\* The producer of a backend's stream has an event and sends it on its stream, a
\* send that waits for the receiver and for nothing else.
BackendEmit(i) ==
    /\ bkPc[i] = "select"
    /\ emitted[i] < MaxEvents
    /\ emitted' = [emitted EXCEPT ![i] = @ + 1]
    /\ bkPc' = [bkPc EXCEPT ![i] = "sending"]
    /\ UNCHANGED <<wPc, wResult, ctxCancelled, cancelCalled, fwdPc, held, got, wg, closerPc,
                   aggClosed, closeCount, listVars>>

\* The producer, waiting, finds its context done: it returns and closes its stream.
BackendStop(i) ==
    /\ bkPc[i] = "select"
    /\ WatchCtxDone
    /\ bkPc' = [bkPc EXCEPT ![i] = "closed"]
    /\ UNCHANGED <<wPc, wResult, ctxCancelled, cancelCalled, fwdPc, emitted, held, got, wg, closerPc,
                   aggClosed, closeCount, listVars>>

\* A receive that yields the first event of the stream again.
Received_First(i) == 1

\* The event a receive from the backend's stream yields: the one its producer is
\* sending, the latest it emitted.
Received(i) == emitted[i]

\* for event := range eventCh: the forwarding task receives the event the producer
\* is sending.
FwdRecv(i) ==
    /\ fwdPc[i] = "recv"
    /\ bkPc[i] = "sending"
    /\ held' = [held EXCEPT ![i] = Received(i)]
    /\ bkPc' = [bkPc EXCEPT ![i] = "select"]
    /\ fwdPc' = [fwdPc EXCEPT ![i] = "send"]
    /\ UNCHANGED <<wPc, wResult, ctxCancelled, cancelCalled, emitted, got, wg, closerPc,
                   aggClosed, closeCount, listVars>>

\* for event := range eventCh: the stream is closed, the loop and the task end.
FwdRecvClosed(i) ==
    /\ fwdPc[i] = "recv"
    /\ bkPc[i] = "closed"
    /\ FwdReturn(i)
    /\ UNCHANGED <<wPc, wResult, ctxCancelled, cancelCalled, bkPc, emitted, held, got, closerPc,
                   aggClosed, closeCount, listVars>>

\* The merged stream as its consumer receives it, with the event received twice.
Delivered_Twice(i) == Append(Append(got[i], held[i]), held[i])

\* case aggregatedEvents <- event: the consumer receives the event the task holds.
Delivered(i) == Append(got[i], held[i])

\* The select of the forwarding task takes its send: the consumer is receiving
\* from the merged stream.
FwdSend(i) ==
    /\ fwdPc[i] = "send"
    /\ ~aggClosed
    /\ got' = [got EXCEPT ![i] = Delivered(i)]
    /\ held' = [held EXCEPT ![i] = 0]
    /\ fwdPc' = [fwdPc EXCEPT ![i] = "recv"]
    /\ UNCHANGED <<wPc, wResult, ctxCancelled, cancelCalled, bkPc, emitted, wg, closerPc,
                   aggClosed, closeCount, listVars>>

\* The send, not in a select with the context.
CanAbort_Never == FALSE

\* case <-watchCtx.Done(): the other case of the select of the forwarding task.
CanAbort == WatchCtxDone

\* The select of the forwarding task takes watchCtx.Done(): the task returns,
\* the event it holds is dropped.
FwdAbort(i) ==
    /\ fwdPc[i] = "send"
    /\ CanAbort
    /\ held' = [held EXCEPT ![i] = 0]
    /\ FwdReturn(i)
    /\ UNCHANGED <<wPc, wResult, ctxCancelled, cancelCalled, bkPc, emitted, got, closerPc,
                   aggClosed, closeCount, listVars>>

\* wg.Wait() returning while a forwarding task is still to call wg.Done().
WgWaitReturns_Early == wg <= 1

\* wg.Wait() returns when the counter is zero.
WgWaitReturns == wg = 0

CloserWait ==
    /\ closerPc = "wait"
    /\ WgWaitReturns
    /\ closerPc' = "cancel"
    /\ UNCHANGED <<wPc, wResult, ctxCancelled, cancelCalled, fwdPc, bkPc, emitted, held, got, wg,
                   aggClosed, closeCount, listVars>>

\* cancel(): the derived context is released.
CloserCancel ==
    /\ closerPc = "cancel"
    /\ cancelCalled' = TRUE
    /\ closerPc' = "close"
    /\ UNCHANGED <<wPc, wResult, ctxCancelled, fwdPc, bkPc, emitted, held, got, wg,
                   aggClosed, closeCount, listVars>>

\* close(aggregatedEvents)
CloserClose ==
    /\ closerPc = "close"
    /\ aggClosed' = TRUE
    /\ closeCount' = closeCount + 1
    /\ closerPc' = "done"
    /\ UNCHANGED <<wPc, wResult, ctxCancelled, cancelCalled, fwdPc, bkPc, emitted, held, got, wg,
                   listVars>>

\* A step of a task started by Watch or by a strategy's Watch.
TaskStep ==
    \/ \E i \in Slots : FwdOpenFail(i) \/ FwdOpen(i) \/ FwdRecv(i) \/ FwdRecvClosed(i)
                          \/ FwdSend(i) \/ FwdAbort(i) \/ BackendEmit(i) \/ BackendStop(i)
    \/ CloserWait
    \/ CloserCancel
    \/ CloserClose

WatchOther == <<regVars, callVars, mutVars, matchVars>>

WatchNext ==
    \/ WatchCall /\ UNCHANGED WatchOther
    \/ Cancel /\ UNCHANGED WatchOther
    \/ (\E i \in Slots : FwdOpenFail(i)) /\ UNCHANGED WatchOther
    \/ (\E i \in Slots : FwdOpen(i)) /\ UNCHANGED WatchOther
    \/ (\E i \in Slots : BackendEmit(i)) /\ UNCHANGED WatchOther
    \/ (\E i \in Slots : BackendStop(i)) /\ UNCHANGED WatchOther
    \/ (\E i \in Slots : FwdRecv(i)) /\ UNCHANGED WatchOther
    \/ (\E i \in Slots : FwdRecvClosed(i)) /\ UNCHANGED WatchOther
    \/ (\E i \in Slots : FwdSend(i)) /\ UNCHANGED WatchOther
    \/ (\E i \in Slots : FwdAbort(i)) /\ UNCHANGED WatchOther
    \/ CloserWait /\ UNCHANGED WatchOther
    \/ CloserCancel /\ UNCHANGED WatchOther
    \/ CloserClose /\ UNCHANGED WatchOther

\* The backend of a strategy ends its stream of itself: its producer returns and
\* closes the stream, the context not done.
BackendComplete(i) ==
    /\ bkPc[i] = "select"
    /\ bkPc' = [bkPc EXCEPT ![i] = "closed"]
    /\ UNCHANGED <<wPc, wResult, ctxCancelled, cancelCalled, fwdPc, emitted, held, got, wg, closerPc,
                   aggClosed, closeCount, listVars>>

\* Watch over strategies whose streams may end of themselves.
NaturalNext ==
    \/ WatchNext
    \/ (\E i \in Slots : BackendComplete(i)) /\ UNCHANGED WatchOther

\* The scheduler runs every task that can take a step; a producer waiting with its
\* context done ends up taking that case; nothing makes the caller cancel, a
\* backend produce or the consumer receive.
TaskFairness ==
    /\ \A i \in Slots :
          /\ WF_vars((FwdOpenFail(i) \/ FwdOpen(i)) /\ UNCHANGED WatchOther)
          /\ WF_vars(FwdRecv(i) /\ UNCHANGED WatchOther)
          /\ WF_vars(FwdRecvClosed(i) /\ UNCHANGED WatchOther)
          /\ WF_vars(FwdAbort(i) /\ UNCHANGED WatchOther)
          /\ WF_vars(BackendStop(i) /\ UNCHANGED WatchOther)
    /\ WF_vars(CloserWait /\ UNCHANGED WatchOther)
    /\ WF_vars(CloserCancel /\ UNCHANGED WatchOther)
    /\ WF_vars(CloserClose /\ UNCHANGED WatchOther)

\* The consumer keeps receiving from the merged stream; the senders blocked on it
\* are served in turn.
ConsumerFairness == \A i \in Slots : WF_vars(FwdSend(i) /\ UNCHANGED WatchOther)

\* ------------------------------------------------------------------------
\* Composite discovery: AddStrategy, RemoveStrategy
\* ------------------------------------------------------------------------
MaxCalls == 2

MutIdle ==
    /\ mPc = [m \in Mutators |-> "idle"]
    /\ mOp = [m \in Mutators |-> "none"]
    /\ mArg = [m \in Mutators |-> None]
    /\ mHdr = [m \in Mutators |-> NilSlice]
    /\ mIdx = [m \in Mutators |-> 0]
    /\ mResult = [m \in Mutators |-> "none"]
    /\ mBefore = [m \in Mutators |-> <<>>]
    /\ mCalls = [m \in Mutators |-> 0]
    /\ list0 = strategies

\* The arrays some slice in use points to, and the one an allocation takes.
Refs ==
    {hdr.arr} \cup (IF dPc = "running" THEN {dRange.arr} ELSE {})
              \cup {mHdr[m].arr : m \in {x \in Mutators : mPc[x] = "append"}}
FreeArray == CHOOSE a \in ArrayIds \ Refs : \A b \in ArrayIds \ Refs : a <= b

\* append(h, x): the element is written after the last one when the capacity
\* allows, and the slice is copied to a new, larger array when it does not.
AppendsInPlace(h) == h.len < Cap(h)
AppendArrays(h, x) ==
    IF AppendsInPlace(h)
    THEN [arrays EXCEPT ![h.arr][h.len + 1] = x]
    ELSE [arrays EXCEPT ![FreeArray] = View(h) \o <<x>> \o Nils(NewCap(Cap(h)) - h.len - 1)]
AppendSlice(h) ==
    IF AppendsInPlace(h)
    THEN [arr |-> h.arr, len |-> h.len + 1]
    ELSE [arr |-> FreeArray, len |-> h.len + 1]

\* The lists an overlapping Discover could have seen, with the list now reached.
ListsSeen(list) == IF dPc = "running" THEN dLists \cup {list} ELSE dLists

\* AddStrategy is entered: the name is logged and cd.strategies is read.
AddStrategyCall(m, name) ==
    /\ mPc[m] = "idle"
    /\ mCalls[m] < MaxCalls
    /\ mPc' = [mPc EXCEPT ![m] = "append"]
    /\ mOp' = [mOp EXCEPT ![m] = "add"]
    /\ mArg' = [mArg EXCEPT ![m] = name]
    /\ mHdr' = [mHdr EXCEPT ![m] = hdr]
    /\ mResult' = [mResult EXCEPT ![m] = "none"]
    /\ mBefore' = [mBefore EXCEPT ![m] = strategies]
    /\ mCalls' = [mCalls EXCEPT ![m] = @ + 1]
    /\ dNew' = IF dPc = "running" THEN dNew \cup {name} ELSE dNew
    /\ UNCHANGED <<listVars, mIdx, list0, dPc, dIdx, dRange, dNames, dAtCall, dLists,
                   discovered, responses, dResult, dCtxDone>>

\* cd.strategies = append(cd.strategies, strategy), on the slice that was read.
AddStrategyAppend(m) ==
    /\ mPc[m] = "append"
    /\ arrays' = AppendArrays(mHdr[m], mArg[m])
    /\ hdr' = AppendSlice(mHdr[m])
    /\ mPc' = [mPc EXCEPT ![m] = "idle"]
    /\ mResult' = [mResult EXCEPT ![m] = "nil"]
    /\ dLists' = ListsSeen(strategies')
    /\ UNCHANGED <<mOp, mArg, mHdr, mIdx, mBefore, mCalls, list0, dPc, dIdx, dRange,
                   dNames, dAtCall, dNew, discovered, responses, dResult, dCtxDone>>

\* The index of the last strategy of that name.
FirstMatch_Last(list, name) ==
    IF \E i \in 1..Len(list) : list[i] = name
    THEN CHOOSE i \in 1..Len(list) :
            list[i] = name /\ \A j \in 1..Len(list) : list[j] = name => j <= i
    ELSE 0

\* The loop of RemoveStrategy: the index of the first strategy of that name, 0 when
\* there is none.
FirstMatch(list, name) ==
    IF \E i \in 1..Len(list) : list[i] = name
    THEN CHOOSE i \in 1..Len(list) :
            list[i] = name /\ \A j \in 1..Len(list) : list[j] = name => i <= j
    ELSE 0

\* RemoveStrategy is entered and its loop runs: it ends at the first strategy of
\* that name, or returns the not-found error.
RemoveStrategyCall(m, name) ==
    /\ mPc[m] = "idle"
    /\ mCalls[m] < MaxCalls
    /\ mOp' = [mOp EXCEPT ![m] = "remove"]
    /\ mArg' = [mArg EXCEPT ![m] = name]
    /\ mBefore' = [mBefore EXCEPT ![m] = strategies]
    /\ mCalls' = [mCalls EXCEPT ![m] = @ + 1]
    /\ mIdx' = [mIdx EXCEPT ![m] = FirstMatch(strategies, name)]
    /\ IF FirstMatch(strategies, name) = 0
       THEN /\ mResult' = [mResult EXCEPT ![m] = "NotFound"]
            /\ UNCHANGED mPc
       ELSE /\ mResult' = [mResult EXCEPT ![m] = "none"]
            /\ mPc' = [mPc EXCEPT ![m] = "shift"]
    /\ UNCHANGED <<listVars, mHdr, list0, callVars>>

\* The cells after append(s[:i], s[i+1:]...): the elements after the one at idx are
\* copied one cell down in the same array, the last cell keeps what it held.
Shifted(cells, idx, len) ==
    [k \in 1..Len(cells) |-> IF k >= idx /\ k < len THEN cells[k + 1] ELSE cells[k]]

\* cd.strategies = append(cd.strategies[:i], cd.strategies[i+1:]...), on
\* cd.strategies as it is now; slicing past its length panics.
RemoveStrategyShift(m) ==
    /\ mPc[m] = "shift"
    /\ mPc' = [mPc EXCEPT ![m] = "idle"]
    /\ IF mIdx[m] > hdr.len
       THEN /\ mResult' = [mResult EXCEPT ![m] = "panic"]
            /\ UNCHANGED <<listVars, dLists>>
       ELSE /\ arrays' = [arrays EXCEPT ![hdr.arr] = Shifted(Cells(hdr), mIdx[m], hdr.len)]
            /\ hdr' = [hdr EXCEPT !.len = hdr.len - 1]
            /\ mResult' = [mResult EXCEPT ![m] = "nil"]
            /\ dLists' = ListsSeen(strategies')
    /\ UNCHANGED <<mOp, mArg, mHdr, mIdx, mBefore, mCalls, list0, dPc, dIdx, dRange,
                   dNames, dAtCall, dNew, discovered, responses, dResult, dCtxDone>>

StratOther == <<regVars, matchVars, watchVars>>

\* The context of every Discover call is live.
LiveContext == {FALSE}

\* Every strategy's Discover succeeds and finds nothing.
NothingFound == {[err |-> FALSE, endpoints |-> <<>>]}

\* The longest list one strategy returns when the order of the result is looked at.
MaxOrdered == 2

\* What one strategy's Discover may return then: an error, or a list of endpoints.
OrderedOutcomes ==
    {[err |-> TRUE, endpoints |-> <<>>]} \cup
    {[err |-> FALSE, endpoints |-> e] : e \in SeqsUpTo(DiscEndpoints, MaxOrdered)}

\* Discover calls whose strategies return lists of several endpoints.
ResultNext ==
    \/ DiscoverCallWith(LiveContext) /\ UNCHANGED <<regVars, mutVars, matchVars, watchVars>>
    \/ DiscoverStepWith(OrderedOutcomes) /\ UNCHANGED <<regVars, mutVars, matchVars, watchVars>>
    \/ DiscoverReturn /\ UNCHANGED <<regVars, mutVars, matchVars, watchVars>>

\* One caller changes the list while Discover calls are made.
StratNext ==
    \/ (\E name \in StrategyNames : AddStrategyCall(1, name)) /\ UNCHANGED StratOther
    \/ AddStrategyAppend(1) /\ UNCHANGED StratOther
    \/ (\E name \in StrategyNames : RemoveStrategyCall(1, name)) /\ UNCHANGED StratOther
    \/ RemoveStrategyShift(1) /\ UNCHANGED StratOther
    \/ DiscoverCallWith(LiveContext) /\ UNCHANGED <<regVars, mutVars, matchVars, watchVars>>
    \/ DiscoverStepWith(NothingFound) /\ UNCHANGED <<regVars, mutVars, matchVars, watchVars>>
    \/ DiscoverReturn /\ UNCHANGED <<regVars, mutVars, matchVars, watchVars>>

\* Several callers change the list at the same time.
MutNext ==
    \/ (\E m \in Mutators, name \in StrategyNames : AddStrategyCall(m, name))
          /\ UNCHANGED StratOther
    \/ (\E m \in Mutators : AddStrategyAppend(m)) /\ UNCHANGED StratOther
    \/ (\E m \in Mutators, name \in StrategyNames : RemoveStrategyCall(m, name))
          /\ UNCHANGED StratOther
    \/ (\E m \in Mutators : RemoveStrategyShift(m)) /\ UNCHANGED StratOther

\* ------------------------------------------------------------------------
\* Filters
\* ------------------------------------------------------------------------
Keys == {"env", "tier"}
Values == {"", "prod", "dev"}

\* The maps of tags or labels: a value for some of the keys.
Maps == UNION {[D -> Values] : D \in SUBSET Keys}

\* m[k] of a map: the zero value, the empty string, for a key that is absent.
Lookup(m, k) == IF k \in DOMAIN m THEN m[k] ELSE ""

\* MatchLabels: false at the first key of the filter whose value differs from what
\* the lookup in the service's map gives.
MatchLabels(serviceLabels, filterLabels) ==
    \A key \in DOMAIN filterLabels : Lookup(serviceLabels, key) = filterLabels[key]

\* MatchTags: false at the first key of the filter that is absent from the
\* service's map or has another value there.
MatchTags(serviceTags, filterTags) ==
    \A key \in DOMAIN filterTags :
        key \in DOMAIN serviceTags /\ serviceTags[key] = filterTags[key]

\* A predicate asking for both matches.
isDiscoverable_Both(tags, f) == MatchTags(tags, f.Tags) /\ MatchLabels(tags, f.Labels)

isDiscoverable(tags, f) == MatchTags(tags, f.Tags) \/ MatchLabels(tags, f.Labels)

NoMatch == [evaluated |-> FALSE, tags |-> FALSE, labels |-> FALSE, discoverable |-> FALSE]
NoApplied == [op |-> None, result |-> None]
NoEvent == [type |-> None, of |-> <<>>]
NoSend == [type |-> None, of |-> None]

\* No strategy's Watch has been called.
KubeIdle ==
    /\ kPc = "none"
    /\ kCtxDone = FALSE
    /\ kHandler = NoEvent
    /\ kClosed = FALSE
    /\ kLast = NoEvent

DnsIdle ==
    /\ pollPc = "none"
    /\ dnsCtxDone = FALSE
    /\ reading = TRUE
    /\ prevRecords = {}
    /\ currentRecords = {}
    /\ records = <<>>
    /\ rIdx = 0
    /\ toDelete = {}
    /\ sending = NoSend
    /\ pollEvents = <<>>
    /\ prevAtPoll = {}
    /\ lastPoll = None

MatchIdle ==
    /\ endpointTags = <<>>
    /\ filter = [Tags |-> <<>>, Labels |-> <<>>]
    /\ matched = NoMatch
    /\ filterNil = FALSE
    /\ applied = NoApplied
    /\ KubeIdle
    /\ DnsIdle

MatchInit ==
    /\ endpointTags \in Maps
    /\ filter \in [Tags : Maps, Labels : Maps]
    /\ matched = NoMatch
    /\ filterNil = FALSE
    /\ applied = NoApplied
    /\ KubeIdle
    /\ DnsIdle

\* The match functions are applied to the endpoint's tags and the filter, as the
\* cluster strategy's Discover does for each service it lists.
ApplyFilter ==
    /\ ~matched.evaluated
    /\ matched' = [evaluated |-> TRUE,
                   tags |-> MatchTags(endpointTags, filter.Tags),
                   labels |-> MatchLabels(endpointTags, filter.Labels),
                   discoverable |-> isDiscoverable(endpointTags, filter)]
    /\ UNCHANGED <<endpointTags, filter, filterNil, applied, kubeVars, dnsVars>>

MatchNext == ApplyFilter /\ UNCHANGED <<regVars, discVars, mutVars, watchVars>>

\* ------------------------------------------------------------------------
\* Strategies: the filter in Discover
\* ------------------------------------------------------------------------
\* The strategy is handed an endpoint and a filter, which may be nil; when it is
\* nil, filter stands for what is not there.
FilterInit ==
    /\ endpointTags \in Maps
    /\ filter \in [Tags : Maps, Labels : Maps]
    /\ filterNil \in BOOLEAN
    /\ filterNil => filter = [Tags |-> <<>>, Labels |-> <<>>]
    /\ matched = NoMatch
    /\ applied = NoApplied
    /\ KubeIdle
    /\ DnsIdle

\* The cluster strategy's Discover, for a service it listed: isDiscoverable reads
\* filter.Tags, a nil pointer dereference when the filter is nil.
KubernetesKeeps(tags, f, isNil) ==
    IF isNil THEN "panic"
    ELSE IF isDiscoverable(tags, f) THEN "included" ELSE "skipped"

\* The swarm strategy's Discover, for a service on the target network: with a
\* filter, the service is skipped unless its labels match the filter's labels, and
\* skipped unless they match the filter's tags; without one it is kept.
SwarmKeeps(labels, f, isNil) ==
    IF isNil THEN "included"
    ELSE IF ~MatchLabels(labels, f.Labels) THEN "skipped"
    ELSE IF ~MatchTags(labels, f.Tags) THEN "skipped"
    ELSE "included"

KubernetesDiscoverFilter ==
    /\ applied = NoApplied
    /\ applied' = [op |-> "kubernetes", result |-> KubernetesKeeps(endpointTags, filter, filterNil)]
    /\ UNCHANGED <<endpointTags, filter, matched, filterNil, kubeVars, dnsVars>>

SwarmDiscoverFilter ==
    /\ applied = NoApplied
    /\ applied' = [op |-> "docker_swarm", result |-> SwarmKeeps(endpointTags, filter, filterNil)]
    /\ UNCHANGED <<endpointTags, filter, matched, filterNil, kubeVars, dnsVars>>

(***************************************************************************)
(* The cluster strategy's Watch: an informer with three handlers that send *)
(* on an unbuffered stream, and a task that runs the informer until the    *)
(* context is done and then closes the stream.  One service, whose labels  *)
(* are endpointTags, is added, updated and deleted in the cluster.         *)
(***************************************************************************)
KubeInit ==
    /\ endpointTags \in Maps
    /\ filter \in [Tags : Maps, Labels : Maps]
    /\ filterNil = FALSE
    /\ matched = NoMatch
    /\ applied = NoApplied
    /\ KubeIdle
    /\ DnsIdle

EventTypes == {"ADDED", "MODIFIED", "DELETED"}

\* What each handler checks before it sends: AddFunc and UpdateFunc send when
\* the endpoint's tags match the filter's tags, DeleteFunc sends always.
WatchEmits(type, tags, f) ==
    IF type = "DELETED" THEN TRUE ELSE MatchTags(tags, f.Tags)

\* Watch registers the handlers and starts the task that runs the informer.
KubeWatch ==
    /\ kPc = "none"
    /\ kPc' = "running"
    /\ UNCHANGED <<kCtxDone, kHandler, kClosed, kLast, filterVars, dnsVars>>

\* The informer calls a handler; the handler sends on the stream, where it
\* blocks until the consumer receives.
KubeNotify(type) ==
    /\ kPc = "running"
    /\ kHandler = NoEvent
    /\ kHandler' = IF WatchEmits(type, endpointTags, filter)
                   THEN [type |-> type, of |-> endpointTags]
                   ELSE NoEvent
    /\ UNCHANGED <<kPc, kCtxDone, kClosed, kLast, filterVars, dnsVars>>

\* The consumer receives the event a handler is sending.
KubeReceive ==
    /\ kHandler # NoEvent
    /\ kLast' = kHandler
    /\ kHandler' = NoEvent
    /\ UNCHANGED <<kPc, kCtxDone, kClosed, filterVars, dnsVars>>

KubeCancel ==
    /\ ~kCtxDone
    /\ kCtxDone' = TRUE
    /\ UNCHANGED <<kPc, kHandler, kClosed, kLast, filterVars, dnsVars>>

RunReturns_OnStop == kCtxDone

\* serviceInformer.Run(ctx.Done()) returns once the stop channel is closed and
\* the informer's handlers have returned.
RunReturns == kCtxDone /\ kHandler = NoEvent

KubeRunReturns ==
    /\ kPc = "running"
    /\ RunReturns
    /\ kPc' = "returned"
    /\ UNCHANGED <<kCtxDone, kHandler, kClosed, kLast, filterVars, dnsVars>>

\* close(eventsChan), the statement after Run.
KubeClose ==
    /\ kPc = "returned"
    /\ kPc' = "closed"
    /\ kClosed' = TRUE
    /\ UNCHANGED <<kCtxDone, kHandler, kLast, filterVars, dnsVars>>

matchOther == <<regVars, discVars, mutVars, watchVars>>

KubeNext ==
    \/ KubeWatch /\ UNCHANGED matchOther
    \/ (\E type \in EventTypes : KubeNotify(type)) /\ UNCHANGED matchOther
    \/ KubeReceive /\ UNCHANGED matchOther
    \/ KubeCancel /\ UNCHANGED matchOther
    \/ KubeRunReturns /\ UNCHANGED matchOther
    \/ KubeClose /\ UNCHANGED matchOther

(***************************************************************************)
(* The DNS strategy's Watch: a task that, on every tick, looks the TXT      *)
(* records up, sends ADDED for the records it has not seen in the previous  *)
(* snapshot and DELETED for those of the previous snapshot that are gone,   *)
(* on an unbuffered stream, and returns (closing the stream) when its       *)
(* select sees the context done.  An event in the model carries the record  *)
(* it was sent for.                                                         *)
(***************************************************************************)
Records == {"r1", "r2"}

MaxRecords == 2

\* What one lookup can return: any records, in any order, repeated or not.
Lookups == UNION {[1..n -> Records] : n \in 0..MaxRecords}

parseTXTRecord(record) ==
    [Name |-> "example-service", Address |-> "10.0.0.1", Ports |-> <<8080>>]

validateEndpoint(endpoint) ==
    /\ endpoint.Name # ""
    /\ endpoint.Address # ""
    /\ Len(endpoint.Ports) # 0

DnsInit ==
    /\ endpointTags = <<>>
    /\ filter = [Tags |-> <<>>, Labels |-> <<>>]
    /\ filterNil = FALSE
    /\ matched = NoMatch
    /\ applied = NoApplied
    /\ KubeIdle
    /\ DnsIdle

\* Watch makes the stream and starts the polling task.
DnsWatch ==
    /\ pollPc = "none"
    /\ pollPc' = "select"
    /\ UNCHANGED <<dnsCtxDone, reading, prevRecords, currentRecords, records, rIdx, toDelete,
                   sending, pollEvents, prevAtPoll, lastPoll, filterVars, kubeVars>>

DnsCancel ==
    /\ ~dnsCtxDone
    /\ dnsCtxDone' = TRUE
    /\ UNCHANGED <<pollPc, reading, prevRecords, currentRecords, records, rIdx, toDelete,
                   sending, pollEvents, prevAtPoll, lastPoll, filterVars, kubeVars>>

\* The consumer stops receiving from the stream.
DnsConsumerStops ==
    /\ pollPc # "none"
    /\ reading
    /\ reading' = FALSE
    /\ UNCHANGED <<pollPc, dnsCtxDone, prevRecords, currentRecords, records, rIdx, toDelete,
                   sending, pollEvents, prevAtPoll, lastPoll, filterVars, kubeVars>>

\* case <-ctx.Done(): return, and the deferred close of the stream.
DnsStop ==
    /\ pollPc = "select"
    /\ dnsCtxDone
    /\ pollPc' = "closed"
    /\ UNCHANGED <<dnsCtxDone, reading, prevRecords, currentRecords, records, rIdx, toDelete,
                   sending, pollEvents, prevAtPoll, lastPoll, filterVars, kubeVars>>

\* case <-ticker.C with a lookup that fails: a warning, and back to the select.
DnsPollFails ==
    /\ pollPc = "select"
    /\ lastPoll' = "failed"
    /\ pollEvents' = <<>>
    /\ prevAtPoll' = prevRecords
    /\ UNCHANGED <<pollPc, dnsCtxDone, reading, prevRecords, currentRecords, records, rIdx,
                   toDelete, sending, filterVars, kubeVars>>

\* case <-ticker.C with a lookup that succeeds: currentRecords is made empty
\* and the loop over the records begins.
DnsPoll(found) ==
    /\ pollPc = "select"
    /\ pollPc' = "adding"
    /\ records' = found
    /\ rIdx' = 1
    /\ currentRecords' = {}
    /\ lastPoll' = "ok"
    /\ pollEvents' = <<>>
    /\ prevAtPoll' = prevRecords
    /\ UNCHANGED <<dnsCtxDone, reading, prevRecords, toDelete, sending, filterVars, kubeVars>>

\* _, seen := prevRecords[record]
Seen(record) == record \in prevRecords

\* One iteration of the loop over the records: an invalid record is skipped, a
\* valid one is put in currentRecords and, when not seen, sent as ADDED.  After
\* the last record the loop over prevRecords begins.
DnsAddStep ==
    /\ pollPc = "adding"
    /\ sending = NoSend
    /\ IF rIdx > Len(records)
       THEN /\ pollPc' = "deleting"
            /\ toDelete' = prevRecords
            /\ UNCHANGED <<rIdx, currentRecords, sending>>
       ELSE LET record == records[rIdx] IN
            /\ rIdx' = rIdx + 1
            /\ IF validateEndpoint(parseTXTRecord(record))
               THEN /\ currentRecords' = currentRecords \cup {record}
                    /\ sending' = IF Seen(record) THEN NoSend
                                  ELSE [type |-> "ADDED", of |-> record]
               ELSE UNCHANGED <<currentRecords, sending>>
            /\ UNCHANGED <<pollPc, toDelete>>
    /\ UNCHANGED <<dnsCtxDone, reading, prevRecords, records, pollEvents, prevAtPoll, lastPoll,
                   filterVars, kubeVars>>

\* One iteration of the loop over prevRecords, in the map's order: a record not
\* in currentRecords is sent as DELETED.  After the last one currentRecords
\* becomes prevRecords and the task is back at the select.
DnsDeleteStep ==
    /\ pollPc = "deleting"
    /\ sending = NoSend
    /\ IF toDelete = {}
       THEN /\ pollPc' = "select"
            /\ prevRecords' = currentRecords
            /\ UNCHANGED <<toDelete, sending>>
       ELSE \E record \in toDelete :
            /\ toDelete' = toDelete \ {record}
            /\ sending' = IF record \in currentRecords THEN NoSend
                          ELSE [type |-> "DELETED", of |-> record]
            /\ UNCHANGED <<pollPc, prevRecords>>
    /\ UNCHANGED <<dnsCtxDone, reading, currentRecords, records, rIdx, pollEvents, prevAtPoll,
                   lastPoll, filterVars, kubeVars>>

\* The consumer receives the event the task is sending.
DnsReceive ==
    /\ reading
    /\ sending # NoSend
    /\ pollEvents' = Append(pollEvents, sending)
    /\ sending' = NoSend
    /\ UNCHANGED <<pollPc, dnsCtxDone, reading, prevRecords, currentRecords, records, rIdx,
                   toDelete, prevAtPoll, lastPoll, filterVars, kubeVars>>

DnsNext ==
    \/ DnsWatch /\ UNCHANGED matchOther
    \/ DnsCancel /\ UNCHANGED matchOther
    \/ DnsConsumerStops /\ UNCHANGED matchOther
    \/ DnsStop /\ UNCHANGED matchOther
    \/ DnsPollFails /\ UNCHANGED matchOther
    \/ (\E found \in Lookups : DnsPoll(found)) /\ UNCHANGED matchOther
    \/ DnsAddStep /\ UNCHANGED matchOther
    \/ DnsDeleteStep /\ UNCHANGED matchOther
    \/ DnsReceive /\ UNCHANGED matchOther

\* The polling task runs when it can, and its select takes the context's case
\* when the context is done: the ticker is ready once in ten seconds only.
DnsFairness ==
    /\ WF_vars(DnsAddStep /\ UNCHANGED matchOther)
    /\ WF_vars(DnsDeleteStep /\ UNCHANGED matchOther)
    /\ SF_vars(DnsStop /\ UNCHANGED matchOther)

FilterNext ==
    \/ KubernetesDiscoverFilter /\ UNCHANGED <<regVars, discVars, mutVars, watchVars>>
    \/ SwarmDiscoverFilter /\ UNCHANGED <<regVars, discVars, mutVars, watchVars>>

\* ------------------------------------------------------------------------
\* Specifications
\* ------------------------------------------------------------------------
\* The state after construction, nothing called yet.
Init == RegInit /\ DiscIdle /\ MutIdle /\ MatchIdle /\ WatchIdle

\* The same, for every list of strategies the composite can be built with.
InitDiscovery == RegInit /\ DiscInit /\ MutIdle /\ MatchIdle /\ WatchIdle

\* The same, for the lists of strategies that are watched.
InitWatch == RegInit /\ WatchInit /\ MutIdle /\ MatchIdle

SpecRegister == Init /\ [][RegisterNext]_vars

SpecRegistry == Init /\ [][RegNext]_vars

SpecLifecycle == Init /\ [][LifeNext]_vars

SpecSequence == Init /\ [][TestNext]_vars

SpecTasks == Init /\ [][TaskNext]_vars

SpecUnregister == Init /\ [][UnregNext]_vars

SpecCacheRange == Init /\ [][RangeNext]_vars

SpecBulkOrder == Init /\ [][OrderNext]_vars

SpecDiscovery == InitDiscovery /\ [][DiscNext]_vars

\* The same, for the lists a configuration selects from the default one.
InitStrategies ==
    /\ RegInit
    /\ \E list \in WatchConfigs : ListInit(list)
    /\ CallIdle
    /\ MutIdle
    /\ MatchIdle
    /\ WatchIdle

\* The same, for every endpoint and filter.
InitMatch == RegInit /\ DiscIdle /\ MutIdle /\ MatchInit /\ WatchIdle

SpecStrategies == InitStrategies /\ [][StratNext]_vars

SpecMutators == InitStrategies /\ [][MutNext]_vars

SpecResult == InitStrategies /\ [][ResultNext]_vars

SpecMatch == InitMatch /\ [][MatchNext]_vars

\* The same, for every endpoint and every filter, nil or not.
InitFilters == RegInit /\ DiscIdle /\ MutIdle /\ FilterInit /\ WatchIdle

SpecFilters == InitFilters /\ [][FilterNext]_vars

InitDnsWatch == RegInit /\ DiscIdle /\ MutIdle /\ DnsInit /\ WatchIdle

SpecDnsWatch == InitDnsWatch /\ [][DnsNext]_vars /\ DnsFairness

InitKubeWatch == RegInit /\ DiscIdle /\ MutIdle /\ KubeInit /\ WatchIdle

SpecKubeWatch == InitKubeWatch /\ [][KubeNext]_vars

SpecWatch == InitWatch /\ [][WatchNext]_vars

SpecWatchFair == InitWatch /\ [][WatchNext]_vars /\ TaskFairness

SpecWatchConsumed == InitWatch /\ [][WatchNext]_vars /\ TaskFairness /\ ConsumerFairness

SpecWatchNatural == InitWatch /\ [][NaturalNext]_vars /\ TaskFairness /\ ConsumerFairness

\* ------------------------------------------------------------------------
\* Registry: properties
\* ------------------------------------------------------------------------

\* C1: a name is stored at most once: the entry made by the first successful
\* Register of a name is the one GetService returns ever after, and a Register of
\* a name that was present returns the already-registered error and no service,
\* while a Register of an absent name succeeds.
C1_RegisterUnique ==
    /\ \A n \in Names :
          firstStored[n] # NoService => GetService(n) = <<firstStored[n], TRUE>>
    /\ \A n \in Names : firstStored[n] = NoService => GetService(n)[2] = FALSE
    /\ regResult.err # None =>
          /\ regResult.wasPresent =>
                /\ regResult.err = "AlreadyRegistered"
                /\ regResult.service = NoService
          /\ ~regResult.wasPresent =>
                /\ regResult.err = "nil"
                /\ regResult.service = NewService(regResult.endpoint)

\* A duplicate Register, with another address, was refused and the original kept.
C1_Witness ==
    /\ regResult.err = "AlreadyRegistered"
    /\ GetService(regResult.endpoint.name)[2]
    /\ GetService(regResult.endpoint.name)[1].address # regResult.endpoint.address

\* C2: a bulk lifecycle operation invokes the lifecycle method at most once per
\* service and, when it returns, exactly once on every service that was registered
\* when it began, whatever failed; each of those whose call succeeded is then
\* initialized (initializeAll), started (startAll) or not started (stopAll).
C2_BulkIsolation ==
    /\ \A n \in Names : invoked[n] <= 1
    /\ bulkPc = "done" =>
          /\ \A n \in atStart : invoked[n] = 1
          /\ \A n \in atStart \ failedNow :
                /\ bulkAction = "initialize" => initialized[n]
                /\ bulkAction = "start" => started[n]
                /\ bulkAction = "stop" => ~started[n]

\* startAll over three services returned; one start() failed, the other two
\* services were invoked and are started.
C2_Witness ==
    /\ bulkPc = "done"
    /\ bulkAction = "start"
    /\ Cardinality(atStart) = 3
    /\ Cardinality(failedNow) = 1
    /\ \A n \in atStart \ failedNow : invoked[n] = 1 /\ started[n]

SetOf(seq) == {seq[i] : i \in 1..Len(seq)}

FailedIdx == {i \in 1..Len(responses) : responses[i].err}
OkIdx == {i \in 1..Len(responses) : ~responses[i].err}
UnionOfOk == UNION {SetOf(responses[i].endpoints) : i \in OkIdx}

RECURSIVE SumLen(_)
SumLen(I) ==
    IF I = {} THEN 0
    ELSE LET i == CHOOSE j \in I : TRUE IN Len(responses[i].endpoints) + SumLen(I \ {i})

\* C4: when one strategy fails and each of the others returns a non-empty list,
\* Discover succeeds and returns the union of the lists of the others, nothing of
\* it lost to the failure.
C4_PartialFailure ==
    ( /\ dPc = "done"
      /\ Len(strategies) >= 2
      /\ Cardinality(FailedIdx) = 1
      /\ \A i \in OkIdx : responses[i].endpoints # <<>> )
    => /\ dResult.returned
       /\ ~dResult.err
       /\ SetOf(dResult.endpoints) = UnionOfOk
       /\ Len(dResult.endpoints) = SumLen(OkIdx)

\* Three strategies, the second failed, the other two reported different endpoints,
\* and both endpoints were returned.
C4_Witness ==
    /\ dPc = "done"
    /\ Len(strategies) = 3
    /\ FailedIdx = {2}
    /\ responses[1].endpoints # <<>>
    /\ responses[3].endpoints # <<>>
    /\ responses[1].endpoints # responses[3].endpoints
    /\ SetOf(dResult.endpoints) = DiscEndpoints

\* C5 (the claim as stated): when Discover ends with nothing found and at least one
\* strategy failed, it returns an error, which references every failing strategy.
C5_Claim ==
    ( /\ dPc = "done"
      /\ dResult.endpoints = <<>>
      /\ FailedIdx # {} )
    => /\ dResult.err
       /\ SetOf(dResult.failures) = FailedIdx

\* C6: when no strategy fails, Discover succeeds and returns exactly the union of
\* what the strategies returned: no endpoint lost, none invented, none repeated
\* beyond what the strategies reported.
C6_UnionComplete ==
    ( /\ dPc = "done"
      /\ FailedIdx = {} )
    => /\ dResult.returned
       /\ ~dResult.err
       /\ SetOf(dResult.endpoints) = UnionOfOk
       /\ Len(dResult.endpoints) = SumLen(OkIdx)

\* Three strategies succeeded, the first and the last with different endpoints, the
\* second with none, and the result holds both endpoints.
C6_Witness ==
    /\ dPc = "done"
    /\ Len(strategies) = 3
    /\ FailedIdx = {}
    /\ responses[1].endpoints # <<>>
    /\ responses[2].endpoints = <<>>
    /\ responses[3].endpoints # <<>>
    /\ responses[1].endpoints # responses[3].endpoints
    /\ SetOf(dResult.endpoints) = DiscEndpoints

\* ------------------------------------------------------------------------
\* Watch: properties
\* ------------------------------------------------------------------------
Watched == 1..Len(strategies)

Forwarding(i) == fwdPc[i] \in {"init", "recv", "send"}

\* C7: the merged stream is closed only once every forwarding task has returned,
\* never while one of them is still opening, receiving or sending, and it is
\* closed at most once.
C7_CloseAfterAll ==
    /\ closeCount <= 1
    /\ aggClosed <=> closeCount = 1
    /\ closerPc \in {"close", "done"} => \A i \in Watched : fwdPc[i] = "done"
    /\ aggClosed => \A i \in Slots : ~Forwarding(i)

\* The default three strategies were watched: one could not be opened, the other two
\* streamed and delivered an event, all three tasks returned, then the merged
\* stream was closed.
C7_Witness ==
    /\ strategies = DefaultStrategies
    /\ aggClosed
    /\ closeCount = 1
    /\ bkPc[1] = "closed"
    /\ bkPc[2] = "none"
    /\ bkPc[3] = "closed"
    /\ got[1] # <<>>
    /\ got[3] # <<>>
    /\ \A i \in Watched : fwdPc[i] = "done"

\* Every task started by Watch, or by the strategy Watch calls it made, has ended.
NoTaskRunning ==
    /\ closerPc = "done"
    /\ \A i \in Slots : fwdPc[i] \in {"none", "done"}
    /\ \A i \in Slots : bkPc[i] \in {"none", "closed"}

\* C8 (the claim as stated): once the context is cancelled, the tasks of the watch
\* cannot come to rest before the merged stream is closed and every task started
\* by the watch has ended.
C8_Claim ==
    (wPc = "active" /\ ctxCancelled /\ ~ENABLED TaskStep)
    => (aggClosed /\ NoTaskRunning)

\* C9: a forwarding task that holds an event for the merged stream when the context
\* is cancelled returns, whether or not the consumer ever receives again.
C9_AbortSend ==
    \A i \in Slots : (ctxCancelled /\ fwdPc[i] = "send") ~> (fwdPc[i] = "done")

\* After a cancellation, a task has returned having forwarded fewer events than its
\* backend put on its stream, all of which it had received: it gave up a send.
C9_Witness ==
    \E i \in Slots :
        /\ ctxCancelled
        /\ fwdPc[i] = "done"
        /\ bkPc[i] = "closed"
        /\ Len(got[i]) < emitted[i]

\* C10: the consumer receives the events of each strategy once each, in the order
\* they were emitted; and when the context is never cancelled and the consumer
\* keeps receiving, every event a backend puts on its stream reaches the consumer,
\* whatever the other strategies do.
C10_Delivery ==
    /\ [](\A i \in Slots : got[i] = [k \in 1..Len(got[i]) |-> k])
    /\ \/ <>ctxCancelled
       \/ \A i \in Slots : \A k \in 1..MaxEvents :
             (emitted[i] >= k) ~> (Len(got[i]) >= k)

\* Without a cancellation, both streaming strategies of the default list had all
\* the events they emitted received on the merged stream.
C10_Witness ==
    /\ strategies = DefaultStrategies
    /\ ~ctxCancelled
    /\ emitted[1] >= 2
    /\ emitted[3] >= 2
    /\ Len(got[1]) = emitted[1]
    /\ Len(got[3]) = emitted[3]

\* C11: on the merged stream the events of one strategy are the first events its
\* backend emitted, each once and in the order of emission, whenever the context is
\* cancelled and whatever the other strategies deliver in between.
C11_PerStrategyOrder ==
    \A i \in Slots :
        /\ Len(got[i]) <= emitted[i]
        /\ \A k \in 1..Len(got[i]) : got[i][k] = k

\* Both streaming strategies of the default list delivered two events in order, and
\* the later strategy of the list had both of its events delivered while an event of
\* the earlier one was still to be forwarded.
C11_Witness ==
    /\ strategies = DefaultStrategies
    /\ got[3] = <<1, 2>>
    /\ got[1] = <<1>>
    /\ emitted[1] = 2

OpenFailed(i) == fwdPc[i] = "done" /\ bkPc[i] = "none"

\* C12: Watch returns a stream and no error whatever the strategies' opens do; a
\* strategy whose open failed contributes no event; when the context is never
\* cancelled and the consumer keeps receiving, the events of the other strategies
\* are all delivered although an open failed; and once every forwarding task has
\* returned the merged stream is closed.
C12_OpenFailureIsolated ==
    /\ [](wPc = "active" => wResult = [returned |-> TRUE, stream |-> TRUE, err |-> FALSE])
    /\ [](\A i \in Slots : OpenFailed(i) => got[i] = <<>> /\ emitted[i] = 0)
    /\ \/ <>ctxCancelled
       \/ \A j \in Slots : \A k \in 1..MaxEvents :
             ((\E i \in Slots : OpenFailed(i)) /\ emitted[j] >= k) ~> (Len(got[j]) >= k)
    /\ (wPc = "active" /\ \A i \in Watched : fwdPc[i] = "done") ~> aggClosed

\* The swarm strategy's open failed, the context was not cancelled when the other
\* two strategies of the default list had their events delivered.
C12_Witness ==
    /\ strategies = DefaultStrategies
    /\ wResult.returned
    /\ ~wResult.err
    /\ OpenFailed(2)
    /\ ~ctxCancelled
    /\ got[1] = <<1, 2>>
    /\ got[3] = <<1, 2>>

\* ------------------------------------------------------------------------
\* AddStrategy, RemoveStrategy: properties
\* ------------------------------------------------------------------------
\* C13 (the claim as stated): a Discover that has returned invoked exactly the
\* strategies of the list as it was when the call began or as it was after one of
\* the mutations that completed during the call, in the order of that list.
C13_Claim == dPc = "done" => dNames \in dLists

\* The list without the first of its strategies of that name.
WithoutFirst(list, name) ==
    IF \E i \in 1..Len(list) : list[i] = name
    THEN LET i == CHOOSE j \in 1..Len(list) :
                     list[j] = name /\ \A k \in 1..(j - 1) : list[k] # name
         IN SubSeq(list, 1, i - 1) \o SubSeq(list, i + 1, Len(list))
    ELSE list

\* The list after a call made alone.
Applied(list, op, arg) ==
    IF op = "add" THEN Append(list, arg) ELSE WithoutFirst(list, arg)

\* C14 (the claim as stated): when two callers have each made one AddStrategy or
\* RemoveStrategy call, at the same time or not, and both calls have returned, the
\* list is what the two calls give in one order or the other; in particular two
\* added strategies are both in it.
C14_Claim ==
    (\A m \in Mutators : mPc[m] = "idle" /\ mCalls[m] = 1)
    => \/ strategies = Applied(Applied(list0, mOp[1], mArg[1]), mOp[2], mArg[2])
       \/ strategies = Applied(Applied(list0, mOp[2], mArg[2]), mOp[1], mArg[1])

\* C15 (the claim as stated): when AddStrategy has returned the strategy is the
\* last of the list, which is otherwise as before; a Discover during which the
\* list did not change invokes the list as it is; and a Discover in flight when
\* AddStrategy is called with a strategy that was not in the list does not invoke
\* that strategy.
C15_Claim ==
    /\ (mPc[1] = "idle" /\ mOp[1] = "add") =>
          (mResult[1] = "nil" /\ strategies = Append(mBefore[1], mArg[1]))
    /\ (dPc = "done" /\ dLists = {dAtCall}) => dNames = dAtCall
    /\ dPc = "done" =>
          \A n \in dNew : n \notin {dAtCall[i] : i \in 1..Len(dAtCall)} =>
                             n \notin {dNames[i] : i \in 1..Len(dNames)}

\* C16: when RemoveStrategy has returned, either the list had a strategy of that
\* name, nil was returned and the list is the former one without the first such
\* strategy, the others in their order; or it had none, the not-found error was
\* returned and the list is unchanged.
C16_RemoveFirst ==
    (mPc[1] = "idle" /\ mOp[1] = "remove") =>
        IF \E i \in 1..Len(mBefore[1]) : mBefore[1][i] = mArg[1]
        THEN mResult[1] = "nil" /\ strategies = WithoutFirst(mBefore[1], mArg[1])
        ELSE mResult[1] = "NotFound" /\ strategies = mBefore[1]

\* RemoveStrategy returned nil for a name that the first and the third of three
\* strategies had: the second and the third are left.
C16_Witness ==
    /\ mPc[1] = "idle"
    /\ mOp[1] = "remove"
    /\ mResult[1] = "nil"
    /\ Len(mBefore[1]) = 3
    /\ mBefore[1][1] = mArg[1]
    /\ mBefore[1][2] # mArg[1]
    /\ mBefore[1][3] = mArg[1]
    /\ strategies = <<mBefore[1][2], mBefore[1][3]>>

\* ------------------------------------------------------------------------
\* Discover: empty results
\* ------------------------------------------------------------------------
\* C17: when every strategy succeeds with no endpoint, Discover returns an empty
\* list and no error.
C17_EmptySuccess ==
    ( /\ dPc = "done"
      /\ FailedIdx = {}
      /\ \A i \in OkIdx : responses[i].endpoints = <<>> )
    => /\ dResult.returned
       /\ ~dResult.err
       /\ dResult.endpoints = <<>>

\* Three strategies succeeded with no endpoint and Discover returned.
C17_Witness ==
    /\ dPc = "done"
    /\ Len(strategies) = 3
    /\ OkIdx = {1, 2, 3}
    /\ \A i \in OkIdx : responses[i].endpoints = <<>>
    /\ dResult.returned
    /\ dResult.endpoints = <<>>

\* What Discover returns when every strategy succeeds with no endpoint.
NothingExistsResult == DiscoverReturnValue(<<>>)

\* C18 (the claim as stated): what Discover returns when every strategy failed
\* differs from what it returns when every strategy succeeded with no endpoint.
C18_Claim ==
    ( /\ dPc = "done"
      /\ Len(responses) >= 1
      /\ FailedIdx = 1..Len(responses) )
    => dResult # NothingExistsResult

\* ------------------------------------------------------------------------
\* Filters: properties
\* ------------------------------------------------------------------------
\* C19: the predicate Discover filters with holds exactly when the match by tags
\* or the match by labels holds.
C19_MatchIsOr ==
    matched.evaluated =>
        /\ matched.discoverable <=> (matched.tags \/ matched.labels)
        /\ matched.tags <=> MatchTags(endpointTags, filter.Tags)
        /\ matched.labels <=> MatchLabels(endpointTags, filter.Labels)

\* An endpoint matched a filter by its labels alone, the filter's tags asking for
\* another value than the endpoint has.
C19_Witness ==
    /\ matched.evaluated
    /\ matched.discoverable
    /\ ~matched.tags
    /\ matched.labels
    /\ filter.Labels # <<>>
    /\ filter.Tags # <<>>

\* Every key of the filter's map is in the endpoint's map with the same value.
AllPresentAndEqual(m, f) == \A k \in DOMAIN f : k \in DOMAIN m /\ m[k] = f[k]

\* C20 (the claim as stated): the match by tags and the match by labels each hold
\* exactly when every key of the filter's map is in the endpoint's map with an equal
\* value, a key absent from the endpoint's map satisfying no entry of the filter.
C20_Claim ==
    matched.evaluated =>
        /\ matched.tags <=> AllPresentAndEqual(endpointTags, filter.Tags)
        /\ matched.labels <=> AllPresentAndEqual(endpointTags, filter.Labels)

\* The endpoint E of the example, and the filters by the one tag env.
TagsProd == [k \in {"env"} |-> "prod"]
TagsDev == [k \in {"env"} |-> "dev"]

\* C21 (the claim as stated): for an endpoint with the tags {env: prod}, a filter
\* with the tags {env: prod} matches it, a filter with the tags {env: dev} matches
\* it only if the filter's labels match it separately, and a filter whose only
\* constraint is the tags {env: dev} does not match it.
C21_Claim ==
    (matched.evaluated /\ endpointTags = TagsProd) =>
        /\ filter.Tags = TagsProd => matched.discoverable
        /\ (filter.Tags = TagsDev /\ filter.Labels = <<>>) => ~matched.discoverable
        /\ (filter.Tags = TagsDev /\ matched.discoverable) => matched.labels

\* ------------------------------------------------------------------------
\* Registry: further properties
\* ------------------------------------------------------------------------
\* C22: an unregister of a service that is there invokes its stop(); if stop()
\* fails the service stays in the cache, as it was, and the error is returned; if
\* it succeeds the service is stopped and removed; an unregister of an absent
\* name returns not-found, invokes nothing and changes nothing.
C22_UnregisterStops ==
    [][unregResult' # unregResult =>
         LET n == unregResult'.name IN
           /\ ~exists(n) =>
                 /\ unregResult'.err = "NotFound"
                 /\ ~unregResult'.stopInvoked
                 /\ cache' = cache /\ started' = started /\ initialized' = initialized
           /\ exists(n) =>
                 /\ unregResult'.stopInvoked
                 /\ unregResult'.err \in {"nil", "StopFailed"}
                 /\ unregResult'.err = "StopFailed" =>
                       /\ cache' = cache
                       /\ started' = started
                 /\ unregResult'.err = "nil" =>
                       /\ cache' = [cache EXCEPT ![n] = NoService]
                       /\ ~started'[n]]_vars

\* An unregister whose stop() failed returned the error, and GetService still
\* finds the service.
C22_Witness ==
    /\ unregResult.err = "StopFailed"
    /\ unregResult.stopInvoked
    /\ GetService(unregResult.name)[2]

\* C23: after any Register calls, GetService finds a name exactly when a Register
\* of it has succeeded, and returns the service that Register stored; the service
\* a successful Register has just returned is the one GetService returns.
C23_GetAfterRegister ==
    /\ \A n \in Names : GetService(n)[2] <=> firstStored[n] # NoService
    /\ \A n \in Names :
          GetService(n)[2] => GetService(n)[1] = firstStored[n] /\ firstStored[n].name = n
    /\ \A n \in Names : ~GetService(n)[2] => GetService(n)[1] = NoService
    /\ regResult.err = "nil" =>
          GetService(regResult.endpoint.name) = <<regResult.service, TRUE>>

\* Two names have been registered and are found, the third is not.
C23_Witness ==
    /\ regResult.err = "nil"
    /\ Cardinality({n \in Names : GetService(n)[2]}) = 2
    /\ \E n \in Names : ~GetService(n)[2] /\ firstStored[n] = NoService

\* C24 (the claim as stated): the span of a service is started before its
\* lifecycle method is called and ended after it, before the next service is
\* processed, and every invocation comes with exactly one duration observation
\* under (service name, operation).
C24_Claim ==
    /\ inMethod # None => inMethod \in spanOpen
    /\ spanOpen \subseteq {inMethod}
    /\ bulkPc = "done" =>
          \A n \in atStart : observed[<<n, bulkAction>>] = invoked[n]

\* C25: a bulk operation hands every service that was registered when it began
\* to its lifecycle method, whatever was done to the service before: each of them
\* is still to be visited, or has been invoked once, and when the operation has
\* returned each has been invoked, and startAll has started those whose start()
\* succeeded, initialized or not.
C25_NoSequencing ==
    bulkPc \in {"running", "done"} =>
        /\ \A n \in atStart :
              \/ n \in pending /\ invoked[n] = 0
              \/ n \notin pending /\ invoked[n] = 1
        /\ bulkPc = "done" =>
              \A n \in atStart \ failedNow :
                  invoked[n] = 1 /\ (bulkAction = "start" => started[n])

\* startAll returned and has started a service that was never initialized.
C25_Witness ==
    /\ bulkPc = "done"
    /\ bulkAction = "start"
    /\ \E n \in atStart : ~initialized[n] /\ started[n] /\ invoked[n] = 1

\* C26 (the claim as stated): a Discover called with a context that is already
\* expired or cancelled returns an error and has invoked no strategy.
C26_Claim ==
    (dPc = "done" /\ dCtxDone) =>
        /\ dResult.err
        /\ dNames = <<>>

\* C27: with lifecycle methods that do not fail, initializeAll, startAll and
\* stopAll, called in that order, each return no error; when initializeAll has
\* returned every registered service is initialized, when startAll has returned
\* every one is initialized and started, and when stopAll has returned every one
\* is initialized and none is started.
C27_Sequence ==
    bulkPc = "done" =>
        /\ ~bulkResult.err
        /\ bulkResult.action = bulkAction
        /\ \A n \in Names :
              exists(n) =>
                 /\ initialized[n]
                 /\ bulkAction = "start" => started[n]
                 /\ bulkAction = "stop" => ~started[n]

\* stopAll returned after initializeAll and startAll, over three services.
C27_Witness ==
    /\ bulkPc = "done"
    /\ bulkAction = "stop"
    /\ ~bulkResult.err
    /\ Cardinality(atStart) = 3
    /\ \A n \in atStart : initialized[n] /\ ~started[n]

\* C28: a bulk operation has not returned while the lifecycle method of a service
\* is running, and when it has returned the method has been called and has
\* returned for every service that was registered when it began.
C28_Synchronous ==
    /\ inMethod # None => bulkPc = "running" /\ bulkResult = NoBulkResult
    /\ bulkPc = "done" =>
          /\ inMethod = None
          /\ \A n \in atStart : invoked[n] = 1 /\ n \notin pending

\* The method of the last of three services is running, and the bulk operation
\* has not returned.
C28_Witness ==
    /\ inMethod # None
    /\ pending = {inMethod}
    /\ Cardinality(atStart) = 3
    /\ bulkPc = "running"
    /\ bulkResult = NoBulkResult

\* C29 (the claim as stated): when two tasks have each called Register with the
\* same name, exactly one of the calls succeeded, the other returned the
\* already-registered error, and the cache holds the service of the one that
\* succeeded.
C29_Claim ==
    ( /\ \A t \in Tasks : tPc[t] = "done"
      /\ \A t, u \in Tasks : tArg[t].name = tArg[u].name )
    => \E t \in Tasks :
          /\ tRes[t].err = "nil"
          /\ cache[tArg[t].name] = tRes[t].service
          /\ \A u \in Tasks \ {t} : tRes[u].err = "AlreadyRegistered"

C31_RangeTolerant ==
    /\ \A n \in Names : invoked[n] <= 1
    /\ bulkPc = "done" =>
          /\ \A n \in atStart \ disturbed : invoked[n] = 1
          /\ \A n \in Names : invoked[n] = 1 => n \in atStart \cup disturbed
          /\ ~bulkResult.err

\* An iteration over three keys ended: one key was deleted during it, after it
\* had been visited, and is gone; the other two were visited.
C31_Witness ==
    /\ bulkPc = "done"
    /\ Cardinality(atStart) = 3
    /\ Cardinality(disturbed) = 1
    /\ \A n \in disturbed : ~exists(n) /\ invoked[n] = 1
    /\ \A n \in atStart \ disturbed : invoked[n] = 1

\* C35: what a bulk operation has done when it returns is decided by the
\* services that were registered and by which of them fail, in whatever order
\* they were visited: the services invoked are the registered ones, the call
\* fails exactly when one of them fails, and the failures its error reports are
\* those of the failing ones.
C35_OrderIndependent ==
    bulkPc = "done" =>
        /\ {n \in Names : invoked[n] >= 1} = atStart
        /\ bulkResult.err <=> (atStart \cap willFail # {})
        /\ SetOf(bulkResult.failures) = atStart \cap willFail
        /\ Len(bulkResult.failures) = Cardinality(atStart \cap willFail)

\* Of three services two fail; mq was visited before auth.
C35_Witness ==
    /\ bulkPc = "done"
    /\ Cardinality(atStart) = 3
    /\ willFail = {"auth", "mq"}
    /\ bulkResult.failures = <<"mq", "auth">>

\* What the first i strategies contributed, one after the other: the list of each
\* that succeeded, as it returned it.
RECURSIVE Contributions(_)
Contributions(i) ==
    IF i = 0 THEN <<>>
    ELSE Contributions(i - 1) \o
         (IF responses[i].err THEN <<>> ELSE responses[i].endpoints)

\* C36: the list Discover builds and returns is the lists of the strategies that
\* succeeded put one after the other, in the order of the list of strategies, each
\* as its strategy returned it.
C36_Contiguous ==
    /\ dPc \in {"running", "done"} => discovered = Contributions(Len(responses))
    /\ dPc = "done" =>
          /\ dResult.endpoints = Contributions(Len(responses))
          /\ dNames = dAtCall

\* Two strategies returned the same two endpoints in opposite orders, the one
\* between them failed, and the result holds the four in the order returned.
C36_Witness ==
    /\ dPc = "done"
    /\ Len(responses) = 3
    /\ responses[1] = [err |-> FALSE, endpoints |-> <<"e1", "e2">>]
    /\ responses[2].err
    /\ responses[3] = [err |-> FALSE, endpoints |-> <<"e2", "e1">>]
    /\ dResult.endpoints = <<"e1", "e2", "e2", "e1">>

\* ------------------------------------------------------------------------
\* Watch: further properties
\* ------------------------------------------------------------------------
\* Every strategy of the Watch has had its stream closed or its open refused.
StreamsEnded ==
    /\ wPc = "active"
    /\ \A i \in Slots : i <= Len(strategies) => (bkPc[i] = "closed" \/ OpenFailed(i))

\* C32: once the stream of every strategy has been closed by its backend, the
\* consumer still reading, the coordinating task comes to release the derived
\* context and to close the merged stream; it releases the derived context only
\* when every forwarding task has finished, and the streams ending of themselves
\* leave the context of the caller as it was.
C32_NaturalCompletion ==
    /\ StreamsEnded ~> (aggClosed /\ cancelCalled)
    /\ [](cancelCalled => \A i \in Slots : fwdPc[i] \in {"none", "done"})
    /\ [][(\E i \in Slots : bkPc[i] # "closed" /\ bkPc'[i] = "closed")
            => ctxCancelled' = ctxCancelled]_vars

\* The merged stream is closed and the derived context released, every stream
\* having ended with events delivered and the context of the caller not cancelled.
C32_Witness ==
    /\ aggClosed
    /\ cancelCalled
    /\ ~ctxCancelled
    /\ Len(strategies) = 3
    /\ \E i \in Slots : bkPc[i] = "closed" /\ Len(got[i]) = MaxEvents

\* ------------------------------------------------------------------------
\* Strategies: properties of the filter
\* ------------------------------------------------------------------------
\* C38 (the claim as stated): the swarm strategy's Discover keeps a service
\* exactly when its labels match the filter's labels or match the filter's tags.
C38_Claim ==
    (applied.op = "docker_swarm" /\ ~filterNil) =>
        (applied.result = "included" <=>
            (MatchLabels(endpointTags, filter.Labels) \/ MatchTags(endpointTags, filter.Tags)))

\* C40 (the claim as stated): with no filter, every strategy's Discover keeps
\* every endpoint and does not crash.
C40_Claim ==
    (applied.op # None /\ filterNil) => applied.result = "included"

\* C34: the stream of the cluster strategy's Watch is never written to after it
\* has been closed: once the task has left Run, and so when it closes the
\* stream and afterwards, no handler is sending or blocked sending on it.
C34_NoSendAfterClose ==
    /\ kPc \in {"returned", "closed"} => kHandler = NoEvent
    /\ kClosed => kPc = "closed"

\* The stream has been closed after the context was cancelled, and an event had
\* been delivered on it before.
C34_Witness == kClosed /\ kCtxDone /\ kLast # NoEvent

\* C39: every event the cluster strategy's Watch emits, of any kind, concerns
\* an endpoint that matches the filter under the predicate Discover uses.
C39_Claim == kLast # NoEvent => isDiscoverable(kLast.of, filter)

\* C33: after the context is cancelled the polling strategy's stream is closed
\* and its task has terminated, whatever the task was doing, also when it was
\* sending an ADDED or DELETED event and the consumer has stopped reading.
C33_Claim == (dnsCtxDone /\ pollPc # "none") ~> pollPc = "closed"

\* Number of events of one type received for one record in this poll.
EventCount(type, record) ==
    Cardinality({i \in DOMAIN pollEvents : pollEvents[i] = [type |-> type, of |-> record]})

\* The valid records of the snapshot the last lookup returned.
CurrentSnapshot ==
    {records[i] : i \in {j \in DOMAIN records : validateEndpoint(parseTXTRecord(records[j]))}}

\* C37: a successful poll has emitted exactly one ADDED for each valid record
\* in the current snapshot and not in the previous one, exactly one DELETED
\* for each record in the previous and not in the current, and nothing for
\* the others; a failed poll has emitted nothing and kept the snapshot.
C37_Claim ==
    /\ (pollPc = "select" /\ lastPoll = "ok") =>
          \A record \in Records :
             /\ EventCount("ADDED", record) =
                   (IF record \in CurrentSnapshot \ prevAtPoll THEN 1 ELSE 0)
             /\ EventCount("DELETED", record) =
                   (IF record \in prevAtPoll \ CurrentSnapshot THEN 1 ELSE 0)
    /\ (pollPc = "select" /\ lastPoll = "failed") =>
          pollEvents = <<>> /\ prevRecords = prevAtPoll

====
